---------------------------- MODULE Spec2Model ----------------------------
(***************************************************************************)
(* A model of two::World (src/entity.h): entity allocation and recycling,  *)
(* packed component arrays, per-entity masks and the lazily updated view   *)
(* cache.                                                                  *)
(*                                                                         *)
(* The World's fields are the variables, under the names they have in the  *)
(* source.  Every member function is an operator from a World record to    *)
(* the World record it leaves behind; the actions apply one public member  *)
(* function each.  Component types are named by strings, entity handles    *)
(* are the integers the source packs index and version into.               *)
(***************************************************************************)
EXTENDS Integers, Sequences, FiniteSets, TLC

VARIABLES
    component_type_index,  \* size_t: next free component bit
    alive_count,           \* size_t: next fresh entity index
    unused_entities,       \* vector<Entity>: handles whose index may be reused
    destroyed_entities,    \* vector<DestroyedEntity>
    entities,              \* vector<Entity>: all alive entities
    view_cache,            \* unordered_map<EntityMask, EntityCache>
    components,            \* array of ComponentArray, by component bit
    entity_masks,          \* array<EntityMask, TWO_ENTITY_MAX>
    component_types,       \* unordered_map<type_id_t, ComponentType>
    channels,              \* unordered_map<type_id_t, EventChannel>
    active_systems,        \* vector<System *>
    active_system_types,   \* vector<type_id_t>, parallel to active_systems
    system_objects,        \* the System objects constructed so far
    callbacks,             \* load, unload and delete of the last call, in order
    halted,                \* "no", or how the process ended
    assertions,            \* build configuration: TWO_ASSERTIONS defined
    entity_max,            \* build configuration: value of TWO_ENTITY_MAX
    store,                 \* a ComponentArray<T> used on its own
    invoked,               \* handlers the last emit called, in call order
    last,                  \* the call that produced this state
    result,                \* what the last call returned
    watch,                 \* the last view_one result, and what was done to it
    active_component_t,    \* the static local of each instantiation of view
    steps_left             \* number of calls the run may still make

vars == <<component_type_index, alive_count, unused_entities,
          destroyed_entities, entities, view_cache, components,
          entity_masks, component_types, channels, active_systems,
          active_system_types, system_objects, callbacks, halted,
          assertions, entity_max, store, invoked, last, result, watch,
          active_component_t, steps_left>>

---------------------------------------------------------------------------
(* Configuration and bounds *)

\* TWO_ENTITY_MAX is a configuration macro (8192 by default); the model
\* configures a small world.  The variable entity_max holds the value the
\* build at hand was configured with.
TWO_ENTITY_MAX == 3

\* Highest version a handle reaches in the model; destroy_entity is not
\* called on a handle of this version.
MaxVersion == 1

\* Number of calls a run of the model makes.
MaxSteps == 5

\* Number of calls a run makes when it only creates, destroys, collects and
\* views entities.
MaxLifecycleSteps == 6

\* Number of calls a run makes on a ComponentArray used on its own, and
\* the number of entity handles its callers use.
MaxStoreSteps == 4

MaxStoreEntities == 3

\* Number of calls a run makes when it creates, deactivates and destroys
\* entities and asks view_one for the first of them.
MaxViewSteps == 6

\* Number of calls a run makes when it unpacks components.
MaxUnpackSteps == 5

\* Number of calls a run makes when TWO_ENTITY_MAX is configured between 1
\* and the model's value.
MaxConfigSteps == 6

\* Number of calls a run makes when it removes component types that may
\* not be registered.
MaxRemoveSteps == 4

\* Number of calls a run makes when it also passes handles whose index has
\* been reused.
MaxStaleSteps == 6

\* Number of calls a run makes when it looks at the lists view returns
\* from the cache.
MaxCacheSteps == 4

\* Number of calls a run makes when it asks which components an entity
\* holds.
MaxContainsSteps == 3

\* Number of calls a run makes when the process uses one World after
\* another.
MaxWorldsSteps == 5

\* Number of calls a run makes when it registers component types.
MaxRegistrySteps == 4

\* Number of calls a run makes when it only adds, looks up and destroys
\* systems.
MaxSystemSteps == 4

\* Number of calls a run makes when it only binds handlers and emits
\* events.
MaxEventSteps == 4

\* TWO_COMPONENT_MAX is a configuration macro (64 by default): the size
\* of the components array and of an EntityMask.  The model configures
\* room for Active and one more type.
TWO_COMPONENT_MAX == 2

TWO_ENTITY_VERSION_SHIFT == 16

\* TWO_ENTITY_INDEX_MASK + 1
IndexSpan == 2 ^ TWO_ENTITY_VERSION_SHIFT

\* Width of TWO_ENTITY_INT_TYPE (uint32_t)
EntityBits == 32

NullEntity == 0

\* Component types used by callers, besides two::Active.
UserTypes == {"A"}

CompNames == {"Active"} \cup UserTypes

\* Component types used by callers that register one type more than
\* TWO_COMPONENT_MAX.
RegistryTypes == UserTypes \cup {"B"}

\* Template argument lists these callers instantiate view<...> with.
RegistryViewLists == {<<>>, <<"A">>, <<"B">>}

\* Component values a caller packs (the data member of A).
Values == {1, 2}

\* Value of the empty struct Active{}.
ActiveValue == 0

\* Event types handlers are bound to, and the values emitted.
\* Classes derived from System.
SystemTypes == {"SystemA", "SystemB"}

EventTypes == {"int", "A"}

EventValues == {1, 2}

\* Event handlers: a handler returns true for the events it accepts.
Handlers == {[accepts |-> S] : S \in SUBSET EventValues}

\* Template argument lists view<...> is instantiated with.
ViewLists == {<<>>, <<"A">>}

\* component_types.find(...) == end()
Unregistered == -1

\* What a step that runs into undefined behaviour does in a build without
\* assertions: it carries on the way the generated code does, or the
\* process dies.
UBOutcomes == {"benign", "crash"}

---------------------------------------------------------------------------
(* Entity handles *)

\* i | (version << TWO_ENTITY_VERSION_SHIFT) in EntityBits bits, for an
\* index below IndexSpan: the shift drops the high bits of the version.
entity_id(i, version) ==
    i + (version % (2 ^ (EntityBits - TWO_ENTITY_VERSION_SHIFT))) * IndexSpan

entity_index(entity) == entity % IndexSpan

entity_version(entity) == entity \div IndexSpan

---------------------------------------------------------------------------
(* Small helpers for vectors and maps *)

Range(s) == {s[i] : i \in 1..Len(s)}

Restrict(f, S) == [x \in S |-> f[x]]

\* std::find: position of the first occurrence, 0 for end()
Find(vec, x) ==
    IF x \in Range(vec)
    THEN CHOOSE i \in 1..Len(vec) :
            vec[i] = x /\ \A j \in 1..(i - 1) : vec[j] # x
    ELSE 0

\* std::swap(*rem, vec.back()); vec.pop_back();
SwapPop(vec, i) ==
    SubSeq([vec EXCEPT ![i] = vec[Len(vec)]], 1, Len(vec) - 1)

PopBack(vec) == SubSeq(vec, 1, Len(vec) - 1)

---------------------------------------------------------------------------
(* ComponentArray<T> *)

NewComponentArray ==
    [entity_to_packed |-> <<>>, packed_to_entity |-> <<>>,
     packed_array |-> <<>>, packed_count |-> 0]

ComponentArray_contains(a, entity) == entity \in DOMAIN a.entity_to_packed

ComponentArray_read(a, entity) == a.packed_array[a.entity_to_packed[entity]]

\* write that replaces the component in the first slot.
ComponentArray_write_first_slot(a, entity, component) ==
    IF entity \in DOMAIN a.entity_to_packed
    THEN [a EXCEPT !.packed_array[0] = component]
    ELSE LET pos == a.packed_count
         IN  [entity_to_packed |-> (entity :> pos) @@ a.entity_to_packed,
              packed_to_entity |-> (pos :> entity) @@ a.packed_to_entity,
              packed_array     |-> (pos :> component) @@ a.packed_array,
              packed_count     |-> pos + 1]

\* Slots are numbered from 0 as in the source.  The model keeps the first
\* packed_count elements of packed_array: elements past the count are
\* never read.
ComponentArray_write(a, entity, component) ==
    IF entity \in DOMAIN a.entity_to_packed
    THEN [a EXCEPT !.packed_array[a.entity_to_packed[entity]] = component]
    ELSE LET pos == a.packed_count
         IN  [entity_to_packed |-> (entity :> pos) @@ a.entity_to_packed,
              packed_to_entity |-> (pos :> entity) @@ a.packed_to_entity,
              packed_array     |-> (pos :> component) @@ a.packed_array,
              packed_count     |-> pos + 1]

\* remove that leaves the hole where the component was.
ComponentArray_remove_no_move(a, entity) ==
    IF entity \notin DOMAIN a.entity_to_packed
    THEN a
    ELSE LET removed == a.entity_to_packed[entity]
         IN  [entity_to_packed |->
                  Restrict(a.entity_to_packed, DOMAIN a.entity_to_packed \ {entity}),
              packed_to_entity |->
                  Restrict(a.packed_to_entity, DOMAIN a.packed_to_entity \ {removed}),
              packed_array     |->
                  Restrict(a.packed_array, DOMAIN a.packed_array \ {removed}),
              packed_count     |-> a.packed_count - 1]

ComponentArray_remove(a, entity) ==
    IF entity \notin DOMAIN a.entity_to_packed
    THEN a
    ELSE LET lastSlot == a.packed_count - 1
             removed == a.entity_to_packed[entity]
             arr == [a.packed_array EXCEPT ![removed] = a.packed_array[lastSlot]]
             moved_entity == a.packed_to_entity[lastSlot]
             p2e == [a.packed_to_entity EXCEPT ![removed] = moved_entity]
             e2p == [a.entity_to_packed EXCEPT ![moved_entity] = removed]
         IN  [entity_to_packed |-> Restrict(e2p, DOMAIN e2p \ {entity}),
              packed_to_entity |-> Restrict(p2e, DOMAIN p2e \ {lastSlot}),
              packed_array     |-> Restrict(arr, DOMAIN arr \ {lastSlot}),
              packed_count     |-> lastSlot]

ComponentArray_copy(a, dst, src) ==
    ComponentArray_write(a, dst, ComponentArray_read(a, src))

\* The condition of write's ASSERT(packed_count < TWO_ENTITY_MAX), which
\* an entity that has a slot does not reach.
WriteInBounds(a, entity) ==
    ComponentArray_contains(a, entity) \/ a.packed_count < entity_max

\* The outcome of a call on a ComponentArray: the array it leaves, the
\* value it returns and whether the process is still running.
Outcome(a, value, how) == [array |-> a, value |-> value, halted |-> how]

\* read with its assertion.  Without assertions a missing entity goes
\* through entity_to_packed[entity], which inserts the entity with slot 0.
\* The call returns what packed_array holds at the slot: a component, or,
\* past the valid entries, memory the vector does not own.
ComponentArray_read_call(a, entity, ub, garbage) ==
    IF ~ComponentArray_contains(a, entity) /\ assertions
    THEN Outcome(a, 0, "assert")
    ELSE LET a1 == IF ComponentArray_contains(a, entity) THEN a
                   ELSE [a EXCEPT !.entity_to_packed = (entity :> 0) @@ @]
             slot == a1.entity_to_packed[entity]
         IN  IF slot \in DOMAIN a1.packed_array
             THEN Outcome(a1, a1.packed_array[slot], "no")
             ELSE IF ub = "crash" THEN Outcome(a1, 0, "crash")
             ELSE Outcome(a1, garbage, "no")

\* write with its assertion, ASSERT(packed_count < TWO_ENTITY_MAX).  A
\* replacement whose slot lies past the valid entries writes to memory the
\* vector does not own.
ComponentArray_write_call(a, entity, component, ub) ==
    IF ComponentArray_contains(a, entity)
    THEN IF a.entity_to_packed[entity] \in DOMAIN a.packed_array
         THEN Outcome(ComponentArray_write(a, entity, component), component, "no")
         ELSE Outcome(a, component, IF ub = "crash" THEN "crash" ELSE "no")
    ELSE IF assertions /\ ~WriteInBounds(a, entity)
    THEN Outcome(a, 0, "assert")
    ELSE Outcome(ComponentArray_write(a, entity, component), component, "no")

\* remove.  With an entity that read inserted into an empty array,
\* packed_count - 1 wraps around and packed_array is indexed at SIZE_MAX;
\* the model follows that no further than the end of the process.
ComponentArray_remove_call(a, entity) ==
    IF ComponentArray_contains(a, entity) /\ a.packed_count = 0
    THEN Outcome(a, 0, "crash")
    ELSE Outcome(ComponentArray_remove(a, entity), 0, "no")

\* copy: write(dst, read(src)), each with its assertion.
ComponentArray_copy_call(a, dst, src, ub, garbage) ==
    LET r == ComponentArray_read_call(a, src, ub, garbage)
    IN  IF r.halted # "no" THEN r
        ELSE ComponentArray_write_call(r.array, dst, r.value, ub)

---------------------------------------------------------------------------
(* The World as a record *)

World ==
    [component_type_index |-> component_type_index,
     alive_count          |-> alive_count,
     unused_entities      |-> unused_entities,
     destroyed_entities   |-> destroyed_entities,
     entities             |-> entities,
     view_cache           |-> view_cache,
     components           |-> components,
     entity_masks         |-> entity_masks,
     component_types      |-> component_types,
     channels             |-> channels,
     active_systems       |-> active_systems,
     active_system_types  |-> active_system_types,
     halted               |-> halted]

\* A failed ASSERT aborts the process; "crash" is undefined behaviour that
\* kills it.
Halt(w, how) == [w EXCEPT !.halted = how]

Running(w) == w.halted = "no"

get_mask(w, entity) == w.entity_masks[entity_index(entity)]

\* register_component has no check against TWO_COMPONENT_MAX: with the
\* array full it stores the new ComponentArray at components[i] past the
\* end of the array, in the memory of the member that follows
\* (entity_masks[0], the mask of NullEntity).  The model records the store
\* under index i.
register_component(w, c) ==
    LET i == w.component_type_index
    IN  [w EXCEPT !.component_type_index = i + 1,
                  !.component_types[c] = i,
                  !.components = (i :> NewComponentArray) @@ w.components]

find_or_register_component(w, c) ==
    IF w.component_types[c] # Unregistered THEN w ELSE register_component(w, c)

contains(w, c, entity) ==
    IF w.component_types[c] = Unregistered
    THEN FALSE
    ELSE ComponentArray_contains(w.components[w.component_types[c]], entity)

\* contains<C0, C1, Cn...>: contains<C0> && contains<C1> && contains<Cn...>.
\* The recursion ends in contains<Component>, so the form is instantiated
\* with an odd number of types; with an even number contains<>() is left,
\* which matches no overload and does not compile.
RECURSIVE contains_all(_, _, _)
contains_all(w, cs, entity) ==
    IF Len(cs) = 1
    THEN contains(w, cs[1], entity)
    ELSE /\ contains(w, cs[1], entity)
         /\ contains(w, cs[2], entity)
         /\ contains_all(w, SubSeq(cs, 3, Len(cs)), entity)

\* contains that registers the types it is asked about.
contains_call_registering(w, cs, entity) ==
    LET w1 == [w EXCEPT !.component_types =
                  [c \in DOMAIN w.component_types |->
                      IF w.component_types[c] = Unregistered
                         /\ \E i \in 1..Len(cs) : cs[i] = c
                      THEN 0 ELSE w.component_types[c]]]
    IN  [world |-> w1, value |-> contains_all(w, cs, entity)]

\* A call of contains: a const member function, which looks the type up
\* with component_types.find and reads the store; the World it leaves is
\* the one it found.
contains_call(w, cs, entity) ==
    [world |-> w, value |-> contains_all(w, cs, entity)]

AddDiff(entity) == [entity |-> entity, op |-> "Add"]

RemoveDiff(entity) == [entity |-> entity, op |-> "Remove"]

\* invalidate_cache without the search for an equal pending diff.
invalidate_cache_no_dedup(c, diff) ==
    [c EXCEPT !.diffs = Append(c.diffs, diff)]

invalidate_cache(c, diff) ==
    IF \E i \in 1..Len(c.diffs) :
          c.diffs[i].entity = diff.entity /\ c.diffs[i].op = diff.op
    THEN c
    ELSE [c EXCEPT !.diffs = Append(c.diffs, diff)]

\* One iteration of the loop of apply_diffs_to_cache.  The result carries
\* `halted`: a Remove diff whose entity is not in the list fails the
\* assertion; without assertions std::swap(*end(), back()) and pop_back()
\* drop the last element, or corrupt the heap.
ApplyDiff(c, diff, ub) ==
    IF diff.op = "Add"
    THEN [c EXCEPT !.entities = Append(c.entities, diff.entity),
                   !.lookup = c.lookup \cup {diff.entity}]
    ELSE LET rem == Find(c.entities, diff.entity)
         IN  IF rem # 0
             THEN [c EXCEPT !.entities = SwapPop(c.entities, rem),
                            !.lookup = c.lookup \ {diff.entity}]
             ELSE IF assertions
             THEN [c EXCEPT !.halted = "assert"]
             ELSE IF ub = "crash" \/ c.entities = <<>>
             THEN [c EXCEPT !.halted = "crash"]
             ELSE [c EXCEPT !.entities = PopBack(c.entities),
                            !.lookup = c.lookup \ {diff.entity}]

\* An EntityCache, and the same with the outcome of a fold attached.
StripHalted(c) == [entities |-> c.entities, diffs |-> c.diffs, lookup |-> c.lookup]

WithHalted(c) == [entities |-> c.entities, diffs |-> c.diffs,
                  lookup |-> c.lookup, halted |-> "no"]

RECURSIVE ApplyDiffsFrom(_, _, _)
ApplyDiffsFrom(c, i, ub) ==
    IF i > Len(c.diffs) \/ c.halted # "no"
    THEN c
    ELSE ApplyDiffsFrom(ApplyDiff(c, c.diffs[i], ub), i + 1, ub)

\* Returns the cache with a `halted` field telling whether the fold
\* completed.
apply_diffs_to_cache(cache, ub) ==
    LET c == ApplyDiffsFrom(WithHalted(cache), 1, ub)
    IN  IF c.halted = "no" THEN [c EXCEPT !.diffs = <<>>] ELSE c

---------------------------------------------------------------------------
(* World member functions *)

\* The loop without the test of the entry's lookup.
AddToCaches_without_lookup(w, entity, mask) ==
    [w EXCEPT !.view_cache =
        [m \in DOMAIN w.view_cache |->
            IF ~(m \subseteq mask) THEN w.view_cache[m]
            ELSE invalidate_cache(w.view_cache[m], AddDiff(entity))]]

\* The loop "for (auto &cached : view_cache)" of pack and copy_entity.
\* Each iteration touches its own cache entry only, so the iteration order
\* of the unordered_map does not matter.
AddToCaches(w, entity, mask) ==
    [w EXCEPT !.view_cache =
        [m \in DOMAIN w.view_cache |->
            IF ~(m \subseteq mask) THEN w.view_cache[m]
            ELSE IF entity \in w.view_cache[m].lookup THEN w.view_cache[m]
            ELSE invalidate_cache(w.view_cache[m], AddDiff(entity))]]

\* pack with the test for a replaced component inverted.
pack_inverted(w, entity, c, component) ==
    IF entity = NullEntity /\ assertions THEN Halt(w, "assert")
    ELSE
    LET index == entity_index(entity)
        current_mask == w.entity_masks[index]
        w1 == find_or_register_component(w, c)
        type == w1.component_types[c]
        mask == current_mask \cup {type}
        w2 == [w1 EXCEPT !.entity_masks[index] = mask,
                         !.components[type] =
                             ComponentArray_write(w1.components[type], entity, component)]
    IN  IF type >= TWO_COMPONENT_MAX THEN Halt(w1, "exception")
        ELSE IF assertions /\ ~WriteInBounds(w1.components[type], entity)
        THEN Halt([w1 EXCEPT !.entity_masks[index] = mask], "assert")
        ELSE IF (type \in current_mask) # (type \in mask)
        THEN w2
        ELSE AddToCaches(w2, entity, mask)

\* pack.  mask.set(type) throws std::out_of_range for a type at or past
\* TWO_COMPONENT_MAX; write asserts packed_count < TWO_ENTITY_MAX.
pack(w, entity, c, component) ==
    IF entity = NullEntity /\ assertions THEN Halt(w, "assert")
    ELSE
    LET index == entity_index(entity)
        current_mask == w.entity_masks[index]
        w1 == find_or_register_component(w, c)
        type == w1.component_types[c]
        mask == current_mask \cup {type}
        w2 == [w1 EXCEPT !.entity_masks[index] = mask,
                         !.components[type] =
                             ComponentArray_write(w1.components[type], entity, component)]
    IN  IF type >= TWO_COMPONENT_MAX THEN Halt(w1, "exception")
        ELSE IF assertions /\ ~WriteInBounds(w1.components[type], entity)
        THEN Halt([w1 EXCEPT !.entity_masks[index] = mask], "assert")
        ELSE IF (type \in current_mask) = (type \in mask)
        THEN w2
        ELSE AddToCaches(w2, entity, mask)

\* remove that leaves the bit of the type set in the mask.
remove_keeping_bit(w, entity, c, ub) ==
    IF w.component_types[c] = Unregistered
    THEN Halt(w, IF assertions THEN "assert" ELSE "crash")
    ELSE LET type == w.component_types[c]
         IN  [w EXCEPT !.components[type] =
                           ComponentArray_remove(w.components[type], entity)]

\* remove<Component>.  With an unregistered type the assertion fails; without
\* assertions component_types[...] inserts the type with value 0 and the
\* call goes on with components[0], a null pointer when no type has been
\* registered.  entity_masks[...].reset(type) throws std::out_of_range for
\* a type at or past TWO_COMPONENT_MAX.
remove(w, entity, c, ub) ==
    IF w.component_types[c] = Unregistered /\ assertions
    THEN Halt(w, "assert")
    ELSE
    LET w1 == IF w.component_types[c] = Unregistered
              THEN [w EXCEPT !.component_types[c] = 0]
              ELSE w
        type == w1.component_types[c]
    IN  IF type \notin DOMAIN w1.components
           \/ (w.component_types[c] = Unregistered /\ ub = "crash")
        THEN Halt(w1, "crash")
        ELSE IF type >= TWO_COMPONENT_MAX
        THEN Halt([w1 EXCEPT !.components[type] =
                      ComponentArray_remove(w1.components[type], entity)],
                  "exception")
        ELSE
        [w1 EXCEPT
            !.components[type] = ComponentArray_remove(w1.components[type], entity),
            !.view_cache =
                [m \in DOMAIN w1.view_cache |->
                    IF type \notin m THEN w1.view_cache[m]
                    ELSE IF entity \notin w1.view_cache[m].lookup THEN w1.view_cache[m]
                    ELSE invalidate_cache(w1.view_cache[m], RemoveDiff(entity))],
            !.entity_masks[entity_index(entity)] = @ \ {type}]

set_active(w, entity, active, ub) ==
    IF entity = NullEntity /\ assertions THEN Halt(w, "assert")
    ELSE IF active THEN pack(w, entity, "Active", ActiveValue)
    ELSE remove(w, entity, "Active", ub)

RECURSIVE RegisterAll(_, _, _)
RegisterAll(w, cs, i) ==
    IF i > Len(cs) THEN w
    ELSE RegisterAll(find_or_register_component(w, cs[i]), cs, i + 1)

\* The mask view<Components...>(include_inactive) looks up, in a World in
\* which the types are registered.
ViewMask(w, cs, include_inactive) ==
    {w.component_types[cs[i]] : i \in 1..Len(cs)}
        \cup (IF include_inactive THEN {} ELSE {w.component_types["Active"]})

\* The scan of view without the test that leaves NullEntity out.
ScanWithNull(w, mask, i, acc) ==
    acc \o SelectSeq(SubSeq(w.entities, i, Len(w.entities)),
                     LAMBDA entity :
                         mask \subseteq w.entity_masks[entity_index(entity)])

\* The scan of a cache miss.
RECURSIVE Scan(_, _, _, _)
Scan(w, mask, i, acc) ==
    IF i > Len(w.entities) THEN acc
    ELSE LET entity == w.entities[i]
         IN  Scan(w, mask, i + 1,
                  IF mask \subseteq w.entity_masks[entity_index(entity)]
                     /\ entity # NullEntity
                  THEN Append(acc, entity) ELSE acc)

\* view from "auto cache_it = view_cache.find(mask)" on, and the
\* std::out_of_range that mask.set(type) throws for a type at or past
\* TWO_COMPONENT_MAX.
ViewWithMask(w1, mask, ub) ==
    IF \E type \in mask : type >= TWO_COMPONENT_MAX
    THEN Halt(w1, "exception")
    ELSE IF mask \in DOMAIN w1.view_cache
    THEN LET cache == w1.view_cache[mask]
         IN  IF cache.diffs = <<>> THEN w1
             ELSE LET c == apply_diffs_to_cache(cache, ub)
                  IN  IF c.halted # "no" THEN Halt(w1, c.halted)
                      ELSE [w1 EXCEPT !.view_cache[mask] = StripHalted(c)]
    ELSE LET cache == Scan(w1, mask, 1, <<>>)
         IN  [w1 EXCEPT !.view_cache =
                 (mask :> [entities |-> cache, diffs |-> <<>>,
                           lookup |-> Range(cache)]) @@ w1.view_cache]

\* view that scans the entities on every call.
view_uncached(w, cs, include_inactive, ub) ==
    LET w1 == RegisterAll(find_or_register_component(w, "Active"), cs, 1)
        mask == ViewMask(w1, cs, include_inactive)
        cache == Scan(w1, mask, 1, <<>>)
        entry == [entities |-> cache, diffs |-> <<>>, lookup |-> Range(cache)]
    IN  [w1 EXCEPT !.view_cache =
            [m \in DOMAIN w1.view_cache \cup {mask} |->
                IF m = mask THEN entry ELSE w1.view_cache[m]]]

\* view<Components...>(include_inactive).  active_component_t is a static
\* local of each instantiation, set by find_or_register_component<Active>()
\* on the first call; with one World in the process every later call to
\* find_or_register_component<Active>() returns the same bit, so the model
\* calls it each time.
view(w, cs, include_inactive, ub) ==
    LET w1 == RegisterAll(find_or_register_component(w, "Active"), cs, 1)
    IN  ViewWithMask(w1, ViewMask(w1, cs, include_inactive), ub)

\* The static locals of view before any instantiation has run.
Uninitialized == -2

NoStatics == [cs \in ViewLists \cup RegistryViewLists |-> Uninitialized]

\* view in a process that has, or had, other Worlds.  statics[cs] is
\* active_component_t of view<cs...>: its initializer
\* find_or_register_component<Active>() runs on the World of the first
\* call of the instantiation and never again, so later calls set the bit
\* it returned then, whichever World they are made on.  The result is the
\* World after the call, the statics, and the mask looked up.
view_in_process(w, cs, include_inactive, ub, statics) ==
    LET first == statics[cs] = Uninitialized
        w0 == IF first THEN find_or_register_component(w, "Active") ELSE w
        bit == IF first THEN w0.component_types["Active"] ELSE statics[cs]
        w1 == RegisterAll(w0, cs, 1)
        mask == {w1.component_types[cs[i]] : i \in 1..Len(cs)}
                    \cup (IF include_inactive THEN {} ELSE {bit})
    IN  [world |-> ViewWithMask(w1, mask, ub),
         statics |-> [statics EXCEPT ![cs] = bit],
         mask |-> mask]

\* The list view returns: the cached list after the call.
ViewResult(w, cs, include_inactive) ==
    w.view_cache[ViewMask(w, cs, include_inactive)].entities

\* What a call returned: nothing, an Optional<Entity> or a component.
Returned(kind, has_value, value) ==
    [kind |-> kind, has_value |-> has_value, value |-> value]

NoResult == Returned("void", FALSE, 0)

\* view_one: the World after the call and the Optional returned.
view_one(w, cs, include_inactive, ub) ==
    LET w1 == view(w, cs, include_inactive, ub)
    IN  IF ~Running(w1) THEN [world |-> w1, value |-> NoResult]
        ELSE LET v == ViewResult(w1, cs, include_inactive)
             IN  [world |-> w1,
                  value |-> IF Len(v) > 0
                            THEN Returned("optional", TRUE, v[1])
                            ELSE Returned("optional", FALSE, NullEntity)]

\* unpack without the assertions.
unpack_unchecked(w, c, entity, ub, garbage) ==
    LET w1 == IF w.component_types[c] = Unregistered
              THEN [w EXCEPT !.component_types[c] = 0]
              ELSE w
        type == w1.component_types[c]
    IN  IF type \notin DOMAIN w1.components
           \/ (w.component_types[c] = Unregistered /\ ub = "crash")
        THEN [world |-> Halt(w1, "crash"), value |-> NoResult]
        ELSE LET a == w1.components[type]
                 a1 == IF ComponentArray_contains(a, entity) THEN a
                       ELSE [a EXCEPT !.entity_to_packed = (entity :> 0) @@ @]
                 slot == a1.entity_to_packed[entity]
             IN  IF slot \notin DOMAIN a1.packed_array /\ ub = "crash"
                 THEN [world |-> Halt(w1, "crash"), value |-> NoResult]
                 ELSE [world |-> [w1 EXCEPT !.components[type] = a1],
                       value |-> Returned("component", TRUE,
                                          IF slot \in DOMAIN a1.packed_array
                                          THEN a1.packed_array[slot]
                                          ELSE garbage)]

\* unpack<Component>(entity): the World after the call and the component
\* returned.  Without assertions an unregistered type goes through
\* component_types[...], which inserts the type with value 0, and the call
\* reads from components[0], a null pointer when no type is registered.
unpack(w, c, entity, ub, garbage) ==
    IF assertions /\ (entity = NullEntity \/ w.component_types[c] = Unregistered)
    THEN [world |-> Halt(w, "assert"), value |-> NoResult]
    ELSE
    LET w1 == IF w.component_types[c] = Unregistered
              THEN [w EXCEPT !.component_types[c] = 0]
              ELSE w
        type == w1.component_types[c]
    IN  IF type \notin DOMAIN w1.components
           \/ (w.component_types[c] = Unregistered /\ ub = "crash")
        THEN [world |-> Halt(w1, "crash"), value |-> NoResult]
        ELSE LET r == ComponentArray_read_call(w1.components[type], entity, ub, garbage)
             IN  IF r.halted # "no"
                 THEN [world |-> Halt(w1, r.halted), value |-> NoResult]
                 ELSE [world |-> [w1 EXCEPT !.components[type] = r.array],
                       value |-> Returned("component", TRUE, r.value)]

\* unpack_one<Component>(include_inactive).  Without assertions v[0] of an
\* empty vector is whatever lies at its data pointer: a handle the vector
\* held before, or unmapped memory.
unpack_one(w, c, include_inactive, ub, garbage, stale) ==
    LET w1 == view(w, <<c>>, include_inactive, ub)
    IN  IF ~Running(w1) THEN [world |-> w1, value |-> NoResult]
        ELSE LET v == ViewResult(w1, <<c>>, include_inactive)
             IN  IF Len(v) > 0 THEN unpack(w1, c, v[1], ub, garbage)
                 ELSE IF assertions
                 THEN [world |-> Halt(w1, "assert"), value |-> NoResult]
                 ELSE IF ub = "crash"
                 THEN [world |-> Halt(w1, "crash"), value |-> NoResult]
                 ELSE unpack(w1, c, stale, ub, garbage)

\* make_inactive_entity reusing a handle without a new version.
make_inactive_entity_same_version(w) ==
    IF w.unused_entities = <<>>
    THEN IF ~(w.alive_count < entity_max)
         THEN [world |-> Halt(w, IF assertions THEN "assert" ELSE "crash"),
               entity |-> NullEntity]
         ELSE LET first == (w.alive_count = NullEntity)
                  entity == IF first THEN w.alive_count + 1 ELSE w.alive_count
              IN  [world |-> [w EXCEPT
                       !.alive_count = IF first THEN @ + 2 ELSE @ + 1,
                       !.entities = IF first
                                    THEN Append(Append(@, NullEntity), entity)
                                    ELSE Append(@, entity)],
                   entity |-> entity]
    ELSE LET entity == w.unused_entities[Len(w.unused_entities)]
         IN  [world |-> [w EXCEPT !.unused_entities = PopBack(@),
                                  !.entities = Append(@, entity)],
              entity |-> entity]

\* make_inactive_entity taking the front of unused_entities.
make_inactive_entity_fifo(w) ==
    IF w.unused_entities = <<>>
    THEN IF ~(w.alive_count < entity_max)
         THEN [world |-> Halt(w, IF assertions THEN "assert" ELSE "crash"),
               entity |-> NullEntity]
         ELSE LET first == (w.alive_count = NullEntity)
                  entity == IF first THEN w.alive_count + 1 ELSE w.alive_count
              IN  [world |-> [w EXCEPT
                       !.alive_count = IF first THEN @ + 2 ELSE @ + 1,
                       !.entities = IF first
                                    THEN Append(Append(@, NullEntity), entity)
                                    ELSE Append(@, entity)],
                   entity |-> entity]
    ELSE LET old == w.unused_entities[1]
             version == entity_version(old)
             index == entity_index(old)
             entity == entity_id(index, version + 1)
         IN  [world |-> [w EXCEPT !.unused_entities = Tail(@),
                                  !.entities = Append(@, entity)],
              entity |-> entity]

\* make_inactive_entity: the World after the call and the handle returned.
\* Past the 'Too many entities' assertion a build without assertions hands
\* out an index outside entity_masks; the model stops there.  The limit is
\* tested before the first call skips NullEntity, so that call returns
\* index 1 whatever TWO_ENTITY_MAX is.
make_inactive_entity(w) ==
    IF w.unused_entities = <<>>
    THEN IF ~(w.alive_count < entity_max)
         THEN [world |-> Halt(w, IF assertions THEN "assert" ELSE "crash"),
               entity |-> NullEntity]
         ELSE LET first == (w.alive_count = NullEntity)
                  entity == IF first THEN w.alive_count + 1 ELSE w.alive_count
              IN  [world |-> [w EXCEPT
                       !.alive_count = IF first THEN @ + 2 ELSE @ + 1,
                       !.entities = IF first
                                    THEN Append(Append(@, NullEntity), entity)
                                    ELSE Append(@, entity)],
                   entity |-> entity]
    ELSE LET old == w.unused_entities[Len(w.unused_entities)]
             version == entity_version(old)
             index == entity_index(old)
             entity == entity_id(index, version + 1)
         IN  [world |-> [w EXCEPT !.unused_entities = PopBack(@),
                                  !.entities = Append(@, entity)],
              entity |-> entity]

\* make_entity without the Active component.
make_entity_without_active(w) == make_inactive_entity(w)

make_entity(w) ==
    LET r == make_inactive_entity(w)
    IN  IF ~Running(r.world) THEN r
        ELSE [world |-> pack(r.world, r.entity, "Active", ActiveValue),
              entity |-> r.entity]

\* The first loop of copy_entity without dst_mask.set(...).
CopyComponentsOnly(w, dst, src) ==
    LET src_mask == w.entity_masks[entity_index(src)]
        copied == {w.component_types[c] :
                      c \in {n \in DOMAIN w.component_types :
                                w.component_types[n] # Unregistered}}
                      \cap src_mask
    IN  [w EXCEPT
            !.components =
                [t \in DOMAIN w.components |->
                    IF t \in copied
                    THEN ComponentArray_copy(w.components[t], dst, src)
                    ELSE w.components[t]]]

\* The first loop of copy_entity, over the registered types.  Each
\* iteration touches one ComponentArray and one bit of dst's mask, so the
\* iteration order of component_types does not matter.  copy() reads
\* src's component, which asserts that src has one.
CopyComponents(w, dst, src) ==
    LET src_mask == w.entity_masks[entity_index(src)]
        types == {w.component_types[c] :
                     c \in {n \in DOMAIN w.component_types :
                               w.component_types[n] # Unregistered}}
        copied == {t \in types : t \in src_mask}
        missing == {t \in copied : ~ComponentArray_contains(w.components[t], src)}
        full == {t \in copied : ~WriteInBounds(w.components[t], dst)}
    IN  IF missing # {}
        THEN Halt(w, IF assertions THEN "assert" ELSE "crash")
        ELSE IF assertions /\ full # {}
        THEN Halt(w, "assert")
        ELSE [w EXCEPT
                !.components =
                    [t \in DOMAIN w.components |->
                        IF t \in copied
                        THEN ComponentArray_copy(w.components[t], dst, src)
                        ELSE w.components[t]],
                !.entity_masks[entity_index(dst)] = @ \cup copied]

copy_entity(w, dst, src) ==
    IF dst = NullEntity /\ assertions THEN Halt(w, "assert")
    ELSE LET w1 == CopyComponents(w, dst, src)
         IN  IF ~Running(w1) THEN w1
             ELSE AddToCaches(w1, dst, w1.entity_masks[entity_index(dst)])

make_entity_from(w, archetype) ==
    IF archetype = NullEntity /\ assertions
    THEN [world |-> Halt(w, "assert"), entity |-> NullEntity]
    ELSE LET r == make_entity(w)
         IN  IF ~Running(r.world) THEN r
             ELSE [world |-> copy_entity(r.world, r.entity, archetype),
                   entity |-> r.entity]

\* destroy_entity releasing the index at once.
destroy_entity_releases_index(w, entity, ub) ==
    IF entity = NullEntity /\ assertions THEN Halt(w, "assert")
    ELSE
    LET touched == {m \in DOMAIN w.view_cache : entity \in w.view_cache[m].lookup}
        w1 == [w EXCEPT
                 !.components =
                     [t \in DOMAIN w.components |->
                         ComponentArray_remove(w.components[t], entity)],
                 !.entity_masks[entity_index(entity)] = {},
                 !.view_cache =
                     [m \in DOMAIN w.view_cache |->
                         IF m \in touched
                         THEN [w.view_cache[m] EXCEPT
                                  !.diffs = Append(@, RemoveDiff(entity))]
                         ELSE w.view_cache[m]]]
        rem == Find(w.entities, entity)
    IN  IF rem # 0
        THEN [w1 EXCEPT !.entities = SwapPop(@, rem),
                        !.unused_entities = Append(@, entity)]
        ELSE Halt(w1, IF assertions THEN "assert" ELSE "crash")

\* destroy_entity that leaves the cache entries alone.
destroy_entity_without_diffs(w, entity, ub) ==
    LET w1 == [w EXCEPT
                 !.components =
                     [t \in DOMAIN w.components |->
                         ComponentArray_remove(w.components[t], entity)],
                 !.entity_masks[entity_index(entity)] = {}]
        rem == Find(w.entities, entity)
    IN  [w1 EXCEPT !.entities = SwapPop(@, rem),
                   !.destroyed_entities =
                       Append(@, [entity |-> entity, caches |-> {}])]

\* destroyed.caches holds pointers to entries of view_cache; the model
\* holds their keys.  Each entry is folded on its own, so the model keeps
\* them as a set.
destroy_entity(w, entity, ub) ==
    IF entity = NullEntity /\ assertions THEN Halt(w, "assert")
    ELSE
    LET touched == {m \in DOMAIN w.view_cache : entity \in w.view_cache[m].lookup}
        w1 == [w EXCEPT
                 !.components =
                     [t \in DOMAIN w.components |->
                         ComponentArray_remove(w.components[t], entity)],
                 !.entity_masks[entity_index(entity)] = {},
                 !.view_cache =
                     [m \in DOMAIN w.view_cache |->
                         IF m \in touched
                         THEN [w.view_cache[m] EXCEPT
                                  !.diffs = Append(@, RemoveDiff(entity))]
                         ELSE w.view_cache[m]]]
        destroyed == [entity |-> entity, caches |-> touched]
        rem == Find(w.entities, entity)
    IN  IF rem # 0
        THEN [w1 EXCEPT !.entities = SwapPop(@, rem),
                        !.destroyed_entities = Append(@, destroyed)]
        ELSE IF assertions THEN Halt(w1, "assert")
        ELSE IF ub = "crash" \/ w.entities = <<>> THEN Halt(w1, "crash")
        ELSE [w1 EXCEPT !.entities = PopBack(@),
                        !.destroyed_entities = Append(@, destroyed)]

\* The caches named by the destroyed entities, folded.
RECURSIVE ApplyToCaches(_, _, _)
ApplyToCaches(w, ms, ub) ==
    IF ms = {} \/ ~Running(w) THEN w
    ELSE LET m == CHOOSE x \in ms : TRUE
             c == apply_diffs_to_cache(w.view_cache[m], ub)
         IN  ApplyToCaches(
                 IF c.halted # "no" THEN Halt(w, c.halted)
                 ELSE [w EXCEPT !.view_cache[m] = StripHalted(c)],
                 ms \ {m}, ub)

RECURSIVE CollectFrom(_, _, _)
CollectFrom(w, i, ub) ==
    IF i > Len(w.destroyed_entities) \/ ~Running(w) THEN w
    ELSE LET destroyed == w.destroyed_entities[i]
             w1 == ApplyToCaches(w, destroyed.caches, ub)
         IN  CollectFrom(
                 IF ~Running(w1) THEN w1
                 ELSE [w1 EXCEPT !.unused_entities = Append(@, destroyed.entity)],
                 i + 1, ub)

\* collect_unused_entities without destroyed_entities.clear().
collect_unused_entities_without_clear(w, ub) ==
    IF Len(w.destroyed_entities) = 0 THEN w
    ELSE CollectFrom(w, 1, ub)

collect_unused_entities(w, ub) ==
    IF Len(w.destroyed_entities) = 0 THEN w
    ELSE LET w1 == CollectFrom(w, 1, ub)
         IN  IF ~Running(w1) THEN w1
             ELSE [w1 EXCEPT !.destroyed_entities = <<>>]

---------------------------------------------------------------------------
(* Events *)

\* fn(event)
Handled(fn, event) == event \in fn.accepts

EventChannel_bind(handlers, fn) == Append(handlers, fn)

\* The loop of EventChannel::emit from handler i on; `called` lists the
\* positions of the handlers called so far.
RECURSIVE EmitFrom(_, _, _, _)
EmitFrom(handlers, event, i, called) ==
    IF i > Len(handlers) THEN called
    ELSE IF Handled(handlers[i], event) THEN Append(called, i)
    ELSE EmitFrom(handlers, event, i + 1, Append(called, i))

\* emit without the break.
EventChannel_emit_no_break(handlers, event) ==
    [i \in 1..Len(handlers) |-> i]

\* The handlers EventChannel::emit calls, by position, in call order.
EventChannel_emit(handlers, event) == EmitFrom(handlers, event, 1, <<>>)

bind(w, type, fn) ==
    LET w1 == IF type \in DOMAIN w.channels THEN w
              ELSE [w EXCEPT !.channels = (type :> <<>>) @@ @]
    IN  [w1 EXCEPT !.channels[type] = EventChannel_bind(@, fn)]

\* emit that looks the channel up with channels.at(type).
emit_at(w, type, event) ==
    IF type \notin DOMAIN w.channels
    THEN [world |-> Halt(w, "crash"), invoked |-> <<>>]
    ELSE [world |-> w,
          invoked |-> EventChannel_emit(w.channels[type], event)]

\* emit is const: the World after the call is the World before it.  The
\* result also lists the handlers called.
emit(w, type, event) ==
    IF type \notin DOMAIN w.channels
    THEN [world |-> w, invoked |-> <<>>]
    ELSE [world |-> w,
          invoked |-> EventChannel_emit(w.channels[type], event)]

clear_event_channels(w) == [w EXCEPT !.channels = <<>>]

---------------------------------------------------------------------------
(* Systems *)

\* A System * is the identity of the object and the class it was
\* constructed as; nullptr is NullSystem.
SystemPtr(id, type) == [id |-> id, type |-> type]

NullSystem == SystemPtr(0, "")

\* vector::insert(begin() + index, x), index counted from 0.
InsertAt(vec, index, x) ==
    SubSeq(vec, 1, index) \o <<x>> \o SubSeq(vec, index + 1, Len(vec))

\* vector::erase(begin() + index), index counted from 0.
EraseAt(vec, index) ==
    SubSeq(vec, 1, index) \o SubSeq(vec, index + 2, Len(vec))

\* One virtual call on a system (load, unload) or its delete, with whether
\* the system was in active_systems of w when it happened.
Effect(fn, system, w) ==
    [fn |-> fn, system |-> system, listed |-> system \in Range(w.active_systems)]

\* What a system function leaves behind: the World, the pointer (or list
\* of pointers) it returned and the calls it made on systems.
SystemOutcome(w, value, called) ==
    [world |-> w, value |-> value, called |-> called]

\* make_system(T *system).  ASSERTS_PARANOIA is compiled out unless
\* TWO_PARANOIA is defined.
make_system(w, system) ==
    LET w1 == [w EXCEPT !.active_systems = Append(@, system),
                        !.active_system_types = Append(@, system.type)]
    IN  SystemOutcome(w1, system, <<Effect("load", system, w1)>>)

\* make_system<T>(args): make_system(new T(args)); `system` is the new
\* object.
make_system_new(w, system) == make_system(w, system)

\* make_system_before<Before, T>(args); `system` is the new T.  The two
\* size() are equal in every World the model reaches, so the ASSERT is
\* left out.  pos counts from 1 and is 0 for end().
make_system_before(w, Before, system) ==
    LET pos == Find(w.active_system_types, Before)
        index == (Len(w.active_system_types) - (pos - 1)) - 1
    IN  IF pos = 0
        THEN SystemOutcome(w, system, <<>>)
        ELSE SystemOutcome(
                 [w EXCEPT
                     !.active_systems = InsertAt(@, index, system),
                     !.active_system_types = InsertAt(@, pos - 1, system.type)],
                 system, <<>>)

\* get_system<T>().  static_cast<T *> keeps the address.
get_system(w, T) ==
    LET pos == Find(w.active_system_types, T)
    IN  IF pos = 0
        THEN SystemOutcome(w, NullSystem, <<>>)
        ELSE SystemOutcome(w, w.active_systems[pos], <<>>)

\* The loop of get_all_systems from position i on.
RECURSIVE AllSystemsFrom(_, _, _, _)
AllSystemsFrom(w, T, i, systems) ==
    IF i > Len(w.active_systems) THEN systems
    ELSE IF w.active_system_types[i] # T
    THEN AllSystemsFrom(w, T, i + 1, systems)
    ELSE AllSystemsFrom(w, T, i + 1, Append(systems, w.active_systems[i]))

\* get_all_systems<T>(&systems), called with an empty vector.
get_all_systems(w, T) ==
    SystemOutcome(w, AllSystemsFrom(w, T, 1, <<>>), <<>>)

\* destroy_system(system), system not null.
destroy_system(w, system) ==
    LET pos == Find(w.active_systems, system)
    IN  IF pos = 0
        THEN SystemOutcome(w, NullSystem, <<>>)
        ELSE SystemOutcome(
                 [w EXCEPT
                     !.active_systems = EraseAt(@, pos - 1),
                     !.active_system_types = EraseAt(@, pos - 1)],
                 NullSystem,
                 <<Effect("unload", system, w), Effect("delete", system, w)>>)

\* The loop of destroy_systems from position i on.
RECURSIVE UnloadFrom(_, _, _)
UnloadFrom(w, i, called) ==
    IF i > Len(w.active_systems) THEN called
    ELSE UnloadFrom(w, i + 1,
                    called \o <<Effect("unload", w.active_systems[i], w),
                                Effect("delete", w.active_systems[i], w)>>)

destroy_systems(w) ==
    SystemOutcome([w EXCEPT !.active_systems = <<>>,
                            !.active_system_types = <<>>],
                  NullSystem, UnloadFrom(w, 1, <<>>))

---------------------------------------------------------------------------
(* State machine *)

\* A record of one call: the member function, the handle it was given (or
\* returned, for the make functions), the component type, the template
\* arguments and the boolean argument.  For pack and remove the boolean
\* tells whether the entity held the component type when the call was made;
\* for make_entity(archetype) the archetype is in the place of the template
\* arguments.
Call(op, entity, type, cs, flag) ==
    [op |-> op, entity |-> entity, type |-> type, cs |-> cs, flag |-> flag]

NoCall == Call("none", NullEntity, "", <<>>, FALSE)

\* Handles a caller may pass: the alive entities other than NullEntity.
Live == Range(entities) \ {NullEntity}

\* Every handle the World can hand out, alive or not.
Handles ==
    {entity_id(i, v) : i \in 1..(entity_max - 1), v \in 0..MaxVersion}

\* No view_one result is being followed.
NoWatch == [cs |-> <<>>, flag |-> FALSE, entity |-> NullEntity, exempt |-> FALSE]

\* The call destroys the followed entity or takes away one of the
\* components the followed view_one asked for.
Exempts(call) ==
    /\ call.entity = watch.entity
    /\ \/ call.op = "destroy_entity"
       \/ call.op = "remove" /\ call.type \in Range(watch.cs)
       \/ call.op = "set_active" /\ ~call.flag /\ ~watch.flag

\* A view_one call that returns an entity starts following it; later calls
\* are noted when they destroy it or strip it.
WatchAfter(call, res) ==
    IF call.op = "view_one"
    THEN [cs |-> call.cs, flag |-> call.flag,
          entity |-> IF res.has_value THEN res.value ELSE NullEntity,
          exempt |-> FALSE]
    ELSE IF watch.entity = NullEntity THEN watch
    ELSE [watch EXCEPT !.exempt = @ \/ Exempts(call)]

\* A World after construction, in either build.  entity_masks is
\* std::array<EntityMask, TWO_ENTITY_MAX>.
InitWorld ==
    /\ component_type_index = 0
    /\ alive_count = 0
    /\ unused_entities = <<>>
    /\ destroyed_entities = <<>>
    /\ entities = <<>>
    /\ view_cache = <<>>
    /\ components = <<>>
    /\ entity_masks = [i \in 0..(entity_max - 1) |-> {}]
    /\ component_types = [c \in CompNames \cup RegistryTypes |-> Unregistered]
    /\ channels = <<>>
    /\ active_systems = <<>>
    /\ active_system_types = <<>>
    /\ system_objects = <<>>
    /\ callbacks = <<>>
    /\ halted = "no"
    /\ assertions \in BOOLEAN
    /\ store = NewComponentArray
    /\ invoked = <<>>
    /\ last = NoCall
    /\ result = NoResult
    /\ watch = NoWatch
    /\ active_component_t = NoStatics

Init == entity_max = TWO_ENTITY_MAX /\ InitWorld /\ steps_left = MaxSteps

InitLifecycle ==
    entity_max = TWO_ENTITY_MAX /\ InitWorld /\ steps_left = MaxLifecycleSteps

\* The World after a call that returned res.
ProcessBecomes(w, call, res, statics) ==
    /\ component_type_index' = w.component_type_index
    /\ alive_count' = w.alive_count
    /\ unused_entities' = w.unused_entities
    /\ destroyed_entities' = w.destroyed_entities
    /\ entities' = w.entities
    /\ view_cache' = w.view_cache
    /\ components' = w.components
    /\ entity_masks' = w.entity_masks
    /\ component_types' = w.component_types
    /\ channels' = w.channels
    /\ active_systems' = w.active_systems
    /\ active_system_types' = w.active_system_types
    /\ system_objects' = system_objects
    /\ callbacks' = callbacks
    /\ halted' = w.halted
    /\ assertions' = assertions
    /\ entity_max' = entity_max
    /\ store' = store
    /\ invoked' = invoked
    /\ last' = call
    /\ result' = res
    /\ watch' = WatchAfter(call, res)
    /\ active_component_t' = statics
    /\ steps_left > 0
    /\ steps_left' = steps_left - 1

\* The same for the calls that leave the static locals of view alone.
BecomesWith(w, call, res) == ProcessBecomes(w, call, res, active_component_t)

\* The World after a call that returns nothing the properties look at.
Becomes(w, call) == BecomesWith(w, call, NoResult)

MakeInactiveEntity ==
    /\ halted = "no"
    /\ LET r == make_inactive_entity(World)
       IN  Becomes(r.world, Call("make_inactive_entity", r.entity, "", <<>>, FALSE))

MakeEntity ==
    /\ halted = "no"
    /\ LET r == make_entity(World)
       IN  Becomes(r.world, Call("make_entity", r.entity, "", <<>>, FALSE))

MakeEntityFrom ==
    /\ halted = "no"
    /\ \E archetype \in Live :
          LET r == make_entity_from(World, archetype)
          IN  Becomes(r.world,
                      Call("make_entity_from", r.entity, "", <<archetype>>, FALSE))

CopyEntity ==
    /\ halted = "no"
    /\ \E dst \in Live, src \in Live :
          Becomes(copy_entity(World, dst, src),
                  Call("copy_entity", dst, "", <<>>, FALSE))

Pack ==
    /\ halted = "no"
    /\ \E entity \in Live, c \in UserTypes, component \in Values :
          Becomes(pack(World, entity, c, component),
                  Call("pack", entity, c, <<>>, contains(World, c, entity)))

\* remove<Component> documents that the type was registered when it was
\* packed ("Assume component was registered when it was packed"); callers
\* here keep to that, so the call meets no undefined behaviour.
Remove ==
    /\ halted = "no"
    /\ \E entity \in Live, c \in UserTypes :
          /\ component_types[c] # Unregistered
          /\ Becomes(remove(World, entity, c, "benign"),
                     Call("remove", entity, c, <<>>, contains(World, c, entity)))

SetActive ==
    /\ halted = "no"
    /\ \E entity \in Live, active \in BOOLEAN :
          /\ active \/ component_types["Active"] # Unregistered
          /\ Becomes(set_active(World, entity, active, "benign"),
                     Call("set_active", entity, "Active", <<>>, active))

View ==
    /\ halted = "no"
    /\ \E cs \in ViewLists, include_inactive \in BOOLEAN, ub \in UBOutcomes :
          Becomes(view(World, cs, include_inactive, ub),
                  Call("view", NullEntity, "", cs, include_inactive))

\* The handle is alive, so std::find finds it in entities.
DestroyEntity ==
    /\ halted = "no"
    /\ \E entity \in Live :
          /\ entity_version(entity) < MaxVersion
          /\ Becomes(destroy_entity(World, entity, "benign"),
                     Call("destroy_entity", entity, "", <<>>, FALSE))

CollectUnusedEntities ==
    /\ halted = "no"
    /\ \E ub \in UBOutcomes :
          Becomes(collect_unused_entities(World, ub),
                  Call("collect_unused_entities", NullEntity, "", <<>>, FALSE))

Next ==
    \/ MakeInactiveEntity
    \/ MakeEntity
    \/ MakeEntityFrom
    \/ CopyEntity
    \/ Pack
    \/ Remove
    \/ SetActive
    \/ View
    \/ DestroyEntity
    \/ CollectUnusedEntities

Spec == Init /\ [][Next]_vars

\* Runs that create, destroy, collect and view entities, and nothing else.
NextLifecycle ==
    \/ MakeInactiveEntity
    \/ MakeEntity
    \/ View
    \/ DestroyEntity
    \/ CollectUnusedEntities

SpecLifecycle == InitLifecycle /\ [][NextLifecycle]_vars

---------------------------------------------------------------------------
(* Runs that watch the first entity of a view *)

\* A World with room for one entity more than in the other runs.
InitViews ==
    entity_max = TWO_ENTITY_MAX + 1 /\ InitWorld /\ steps_left = MaxViewSteps

ViewOne ==
    /\ halted = "no"
    /\ \E cs \in ViewLists, include_inactive \in BOOLEAN, ub \in UBOutcomes :
          LET r == view_one(World, cs, include_inactive, ub)
          IN  BecomesWith(r.world,
                          Call("view_one", NullEntity, "", cs, include_inactive),
                          r.value)

NextViews ==
    \/ MakeEntity
    \/ SetActive
    \/ DestroyEntity
    \/ ViewOne

SpecViews == InitViews /\ [][NextViews]_vars

---------------------------------------------------------------------------
(* Runs that unpack components, in a build with assertions *)

InitUnpack ==
    /\ entity_max = TWO_ENTITY_MAX
    /\ InitWorld
    /\ assertions
    /\ steps_left = MaxUnpackSteps

Unpack ==
    /\ halted = "no"
    /\ \E entity \in Handles, c \in UserTypes,
          ub \in UBOutcomes, garbage \in Values :
          LET r == unpack(World, c, entity, ub, garbage)
          IN  BecomesWith(r.world,
                          Call("unpack", entity, c, <<>>, contains(World, c, entity)),
                          r.value)

UnpackOne ==
    /\ halted = "no"
    /\ \E c \in UserTypes, include_inactive \in BOOLEAN,
          ub \in UBOutcomes, garbage \in Values, stale \in Handles :
          LET r == unpack_one(World, c, include_inactive, ub, garbage, stale)
          IN  BecomesWith(r.world,
                          Call("unpack_one", NullEntity, c, <<c>>, include_inactive),
                          r.value)

NextUnpack ==
    \/ MakeEntity
    \/ MakeInactiveEntity
    \/ Pack
    \/ Remove
    \/ DestroyEntity
    \/ CollectUnusedEntities
    \/ Unpack
    \/ UnpackOne

SpecUnpack == InitUnpack /\ [][NextUnpack]_vars

\* ---- Callers that use more component types than TWO_COMPONENT_MAX ----

InitRegistry ==
    /\ entity_max = TWO_ENTITY_MAX
    /\ InitWorld
    /\ steps_left = MaxRegistrySteps

RegistryPack ==
    /\ halted = "no"
    /\ \E entity \in Live, c \in RegistryTypes, component \in Values :
          Becomes(pack(World, entity, c, component),
                  Call("pack", entity, c, <<>>, contains(World, c, entity)))

RegistryView ==
    /\ halted = "no"
    /\ \E cs \in RegistryViewLists, include_inactive \in BOOLEAN,
          ub \in UBOutcomes :
          Becomes(view(World, cs, include_inactive, ub),
                  Call("view", NullEntity, "", cs, include_inactive))

NextRegistry ==
    \/ MakeEntity
    \/ MakeInactiveEntity
    \/ RegistryPack
    \/ RegistryView

SpecRegistry == InitRegistry /\ [][NextRegistry]_vars

\* ---- Callers that query a mask again while its entry has no diff pending ----

InitCache ==
    /\ entity_max = TWO_ENTITY_MAX
    /\ InitWorld
    /\ steps_left = MaxCacheSteps

\* view<cs>(include_inactive) finds an entry for its mask, and the entry
\* has an empty queue of diffs.
IsCacheHit(w, cs, include_inactive) ==
    /\ w.component_types["Active"] # Unregistered
    /\ \A i \in 1..Len(cs) : w.component_types[cs[i]] # Unregistered
    /\ ViewMask(w, cs, include_inactive) \in DOMAIN w.view_cache
    /\ w.view_cache[ViewMask(w, cs, include_inactive)].diffs = <<>>

\* A view call served from such an entry; the list returned is kept.
CachedView ==
    /\ halted = "no"
    /\ \E cs \in ViewLists, include_inactive \in BOOLEAN, ub \in UBOutcomes :
          /\ IsCacheHit(World, cs, include_inactive)
          /\ LET w == view(World, cs, include_inactive, ub)
             IN  BecomesWith(w, Call("view", NullEntity, "", cs, include_inactive),
                             Returned("list", TRUE,
                                      ViewResult(w, cs, include_inactive)))

NextCache ==
    \/ MakeEntity
    \/ MakeInactiveEntity
    \/ Pack
    \/ Remove
    \/ DestroyEntity
    \/ View
    \/ CachedView

SpecCache == InitCache /\ [][NextCache]_vars

\* ---- Callers that ask which components an entity holds ----

\* Template argument lists contains<...> is instantiated with: one type,
\* or three.
ContainsLists ==
    {<<c>> : c \in RegistryTypes \cup {"Active"}}
        \cup [1..3 -> RegistryTypes \cup {"Active"}]

InitContains ==
    /\ entity_max = TWO_ENTITY_MAX
    /\ InitWorld
    /\ steps_left = MaxContainsSteps

Contains ==
    /\ halted = "no"
    /\ \E entity \in Live, cs \in ContainsLists :
          LET r == contains_call(World, cs, entity)
          IN  BecomesWith(r.world, Call("contains", entity, "", cs, FALSE),
                          Returned("bool", TRUE, r.value))

NextContains ==
    \/ MakeEntity
    \/ MakeInactiveEntity
    \/ RegistryPack
    \/ Remove
    \/ View
    \/ Contains

SpecContains == InitContains /\ [][NextContains]_vars

\* ---- A process that uses one World after another ----

InitWorlds ==
    /\ entity_max = TWO_ENTITY_MAX
    /\ InitWorld
    /\ steps_left = MaxWorldsSteps

\* A World as its constructor leaves it.
NewWorldObject ==
    [component_type_index |-> 0,
     alive_count          |-> 0,
     unused_entities      |-> <<>>,
     destroyed_entities   |-> <<>>,
     entities             |-> <<>>,
     view_cache           |-> <<>>,
     components           |-> <<>>,
     entity_masks         |-> [i \in 0..(entity_max - 1) |-> {}],
     component_types      |-> [c \in CompNames \cup RegistryTypes |-> Unregistered],
     channels             |-> <<>>,
     active_systems       |-> <<>>,
     active_system_types  |-> <<>>,
     halted               |-> "no"]

\* The process constructs another World and makes its further calls on
\* that one.  The static locals of the process stay as they are.
NewWorld ==
    /\ halted = "no"
    /\ BecomesWith(NewWorldObject, Call("World", NullEntity, "", <<>>, FALSE),
                   NoResult)

\* view on the World in use; the list returned is kept.
ViewInProcess ==
    /\ halted = "no"
    /\ \E cs \in ViewLists, include_inactive \in BOOLEAN, ub \in UBOutcomes :
          LET r == view_in_process(World, cs, include_inactive, ub,
                                   active_component_t)
          IN  ProcessBecomes(r.world,
                  Call("view", NullEntity, "", cs, include_inactive),
                  Returned("list", Running(r.world),
                           IF Running(r.world)
                           THEN r.world.view_cache[r.mask].entities ELSE <<>>),
                  r.statics)

NextWorlds ==
    \/ MakeEntity
    \/ MakeInactiveEntity
    \/ Pack
    \/ ViewInProcess
    \/ NewWorld

SpecWorlds == InitWorlds /\ [][NextWorlds]_vars

\* ---- Callers that keep a handle after its index was reused ----

InitStale ==
    /\ entity_max = TWO_ENTITY_MAX
    /\ InitWorld
    /\ steps_left = MaxStaleSteps

\* The live entity that has the index of the handle, NullEntity if none.
Successor(entity) ==
    IF \E e \in Live : entity_index(e) = entity_index(entity)
    THEN CHOOSE e \in Live : entity_index(e) = entity_index(entity)
    ELSE NullEntity

\* Handles of destroyed entities whose index a live entity has now.
StaleHandles ==
    {entity \in Handles \ Range(entities) :
        /\ Successor(entity) # NullEntity
        /\ entity_version(entity) < entity_version(Successor(entity))}

StalePack ==
    /\ halted = "no"
    /\ \E entity \in StaleHandles, c \in UserTypes, component \in Values :
          Becomes(pack(World, entity, c, component),
                  Call("pack", entity, c, <<>>, contains(World, c, entity)))

StaleRemove ==
    /\ halted = "no"
    /\ \E entity \in StaleHandles, c \in UserTypes :
          /\ component_types[c] # Unregistered
          /\ Becomes(remove(World, entity, c, "benign"),
                     Call("remove", entity, c, <<>>, contains(World, c, entity)))

StaleSetActive ==
    /\ halted = "no"
    /\ \E entity \in StaleHandles, active \in BOOLEAN :
          Becomes(set_active(World, entity, active, "benign"),
                  Call("set_active", entity, "Active", <<>>, active))

NextStale ==
    \/ MakeEntity
    \/ Pack
    \/ DestroyEntity
    \/ CollectUnusedEntities
    \/ StalePack
    \/ StaleRemove
    \/ StaleSetActive

SpecStale == InitStale /\ [][NextStale]_vars

\* ---- Callers that remove a component type whether or not it is registered ----

InitRemove ==
    /\ entity_max = TWO_ENTITY_MAX
    /\ InitWorld
    /\ steps_left = MaxRemoveSteps

RemoveAny ==
    /\ halted = "no"
    /\ \E entity \in Live, c \in UserTypes, ub \in UBOutcomes :
          Becomes(remove(World, entity, c, ub),
                  Call("remove", entity, c, <<>>, contains(World, c, entity)))

NextRemove ==
    \/ MakeEntity
    \/ MakeInactiveEntity
    \/ Pack
    \/ RemoveAny
    \/ View

SpecRemove == InitRemove /\ [][NextRemove]_vars

\* ---- Builds configured with a smaller TWO_ENTITY_MAX ----

InitConfig ==
    /\ entity_max \in 1..TWO_ENTITY_MAX
    /\ InitWorld
    /\ steps_left = MaxConfigSteps

\* destroy_entity on the handles whose entity_masks slot exists.
ConfigDestroyEntity ==
    /\ halted = "no"
    /\ \E entity \in Live :
          /\ entity_index(entity) < entity_max
          /\ entity_version(entity) < MaxVersion
          /\ Becomes(destroy_entity(World, entity, "benign"),
                     Call("destroy_entity", entity, "", <<>>, FALSE))

NextConfig ==
    \/ MakeInactiveEntity
    \/ ConfigDestroyEntity
    \/ CollectUnusedEntities

SpecConfig == InitConfig /\ [][NextConfig]_vars

---------------------------------------------------------------------------
(* Runs that bind handlers and emit events *)

InitEvents == entity_max = TWO_ENTITY_MAX /\ InitWorld /\ steps_left = MaxEventSteps

\* The World after a call during which the handlers in `called` ran.
EventBecomes(w, called, call) ==
    /\ channels' = w.channels
    /\ halted' = w.halted
    /\ invoked' = called
    /\ last' = call
    /\ steps_left > 0
    /\ steps_left' = steps_left - 1
    /\ UNCHANGED <<component_type_index, alive_count, unused_entities,
                   destroyed_entities, entities, view_cache, components,
                   entity_masks, component_types, active_systems,
                   active_system_types, system_objects, callbacks,
                   assertions, entity_max, store, result, watch,
                   active_component_t>>

\* For bind, emit and clear_event_channels the call record holds the event
\* type, the emitted value in the place of the entity, and whether the
\* type had a channel when the call was made.
Bind ==
    /\ halted = "no"
    /\ \E type \in EventTypes, fn \in Handlers :
          EventBecomes(bind(World, type, fn), invoked,
                       Call("bind", 0, type, <<>>, type \in DOMAIN channels))

Emit ==
    /\ halted = "no"
    /\ \E type \in EventTypes, event \in EventValues :
          LET r == emit(World, type, event)
          IN  EventBecomes(r.world, r.invoked,
                           Call("emit", event, type, <<>>, type \in DOMAIN channels))

ClearEventChannels ==
    /\ halted = "no"
    /\ EventBecomes(clear_event_channels(World), invoked,
                    Call("clear_event_channels", 0, "", <<>>, FALSE))

NextEvents ==
    \/ Bind
    \/ Emit
    \/ ClearEventChannels

SpecEvents == InitEvents /\ [][NextEvents]_vars

---------------------------------------------------------------------------
(* A ComponentArray<T> on its own *)

\* Entity handles the callers of the array use.
StoreEntities == 1..MaxStoreEntities

InitStore == entity_max = TWO_ENTITY_MAX /\ InitWorld /\ steps_left = MaxStoreSteps

\* The array after a call; the World is not involved.
StoreBecomes(r, call) ==
    /\ store' = r.array
    /\ halted' = r.halted
    /\ last' = call
    /\ result' = Returned("component", r.halted = "no", r.value)
    /\ steps_left > 0
    /\ steps_left' = steps_left - 1
    /\ UNCHANGED <<component_type_index, alive_count, unused_entities,
                   destroyed_entities, entities, view_cache, components,
                   entity_masks, component_types, channels, active_systems,
                   active_system_types, system_objects, callbacks,
                   assertions, entity_max, invoked, watch,
                   active_component_t>>

\* For each call the record tells whether the entity the call reads (the
\* one written, removed or copied from) held a component before.
StoreWrite ==
    /\ halted = "no"
    /\ \E entity \in StoreEntities, component \in Values, ub \in UBOutcomes :
          StoreBecomes(ComponentArray_write_call(store, entity, component, ub),
                       Call("write", entity, "", <<>>,
                            ComponentArray_contains(store, entity)))

StoreRemove ==
    /\ halted = "no"
    /\ \E entity \in StoreEntities :
          StoreBecomes(ComponentArray_remove_call(store, entity),
                       Call("remove", entity, "", <<>>,
                            ComponentArray_contains(store, entity)))

StoreCopy ==
    /\ halted = "no"
    /\ \E dst \in StoreEntities, src \in StoreEntities,
          ub \in UBOutcomes, garbage \in Values :
          StoreBecomes(ComponentArray_copy_call(store, dst, src, ub, garbage),
                       Call("copy", dst, "", <<>>,
                            ComponentArray_contains(store, src)))

NextStore ==
    \/ StoreWrite
    \/ StoreRemove
    \/ StoreCopy

SpecStore == InitStore /\ [][NextStore]_vars

---------------------------------------------------------------------------
(* Runs that add, look up and destroy systems *)

InitSystems ==
    entity_max = TWO_ENTITY_MAX /\ InitWorld /\ steps_left = MaxSystemSteps

\* new T(...): the next System object, of class T.
NewSystem(T) == SystemPtr(Len(system_objects) + 1, T)

\* The pointers a caller holds to systems that have not been deleted.
HeldSystems ==
    {SystemPtr(id, system_objects[id].type) :
        id \in {i \in 1..Len(system_objects) : ~system_objects[i].deleted}}

\* Held systems that are not in the World.
LooseSystems == HeldSystems \ Range(active_systems)

\* The objects after a call that constructed the systems in `made` and
\* made the calls in `called`.
ObjectsAfter(made, called) ==
    LET all == system_objects \o
                   [i \in 1..Len(made) |-> [type |-> made[i].type, deleted |-> FALSE]]
        deleted == {called[i].system.id :
                       i \in {j \in 1..Len(called) : called[j].fn = "delete"}}
    IN  [id \in 1..Len(all) |->
            [all[id] EXCEPT !.deleted = @ \/ id \in deleted]]

\* The World after a system function.  The call record holds the system
\* passed or constructed (its id in the place of the entity, its class as
\* the type), the class looked for in cs, and whether the system passed
\* was in the World when the call was made.
SystemBecomes(r, made, call) ==
    /\ active_systems' = r.world.active_systems
    /\ active_system_types' = r.world.active_system_types
    /\ halted' = r.world.halted
    /\ system_objects' = ObjectsAfter(made, r.called)
    /\ callbacks' = r.called
    /\ last' = call
    /\ result' = IF call.op = "get_all_systems"
                 THEN Returned("systems", TRUE, r.value)
                 ELSE Returned("system", r.value # NullSystem, r.value)
    /\ steps_left > 0
    /\ steps_left' = steps_left - 1
    /\ UNCHANGED <<component_type_index, alive_count, unused_entities,
                   destroyed_entities, entities, view_cache, components,
                   entity_masks, component_types, channels, assertions,
                   entity_max, store, invoked, watch, active_component_t>>

MakeSystem ==
    /\ halted = "no"
    /\ \E T \in SystemTypes :
          SystemBecomes(make_system_new(World, NewSystem(T)), <<NewSystem(T)>>,
                        Call("make_system", NewSystem(T).id, T, <<>>, FALSE))

\* make_system(T *) with an instance the caller constructs for the call or
\* holds from a make_system_before that found no Before.  An instance that
\* is already in the World is not allowed.
MakeSystemInstance ==
    /\ halted = "no"
    /\ \/ \E T \in SystemTypes :
             SystemBecomes(make_system(World, NewSystem(T)), <<NewSystem(T)>>,
                           Call("make_system_instance", NewSystem(T).id, T,
                                <<>>, FALSE))
       \/ \E system \in LooseSystems :
             SystemBecomes(make_system(World, system), <<>>,
                           Call("make_system_instance", system.id, system.type,
                                <<>>, FALSE))

MakeSystemBefore ==
    /\ halted = "no"
    /\ \E Before \in SystemTypes, T \in SystemTypes :
          SystemBecomes(make_system_before(World, Before, NewSystem(T)),
                        <<NewSystem(T)>>,
                        Call("make_system_before", NewSystem(T).id, T,
                             <<Before>>, FALSE))

GetSystem ==
    /\ halted = "no"
    /\ \E T \in SystemTypes :
          SystemBecomes(get_system(World, T), <<>>,
                        Call("get_system", 0, T, <<>>, FALSE))

GetAllSystems ==
    /\ halted = "no"
    /\ \E T \in SystemTypes :
          SystemBecomes(get_all_systems(World, T), <<>>,
                        Call("get_all_systems", 0, T, <<>>, FALSE))

DestroySystem ==
    /\ halted = "no"
    /\ \E system \in HeldSystems :
          SystemBecomes(destroy_system(World, system), <<>>,
                        Call("destroy_system", system.id, system.type, <<>>,
                             system \in Range(active_systems)))

DestroySystems ==
    /\ halted = "no"
    /\ SystemBecomes(destroy_systems(World), <<>>,
                     Call("destroy_systems", 0, "", <<>>, FALSE))

NextSystems ==
    \/ MakeSystem
    \/ MakeSystemInstance
    \/ MakeSystemBefore
    \/ GetSystem
    \/ GetAllSystems
    \/ DestroySystem
    \/ DestroySystems

SpecSystems == InitSystems /\ [][NextSystems]_vars

---------------------------------------------------------------------------
(* Vocabulary of the properties *)

IsMake(call) == call.op \in {"make_entity", "make_inactive_entity", "make_entity_from"}

\* The entities a scan of all alive entities finds for a mask.
BruteForce(w, mask) ==
    {e \in Range(w.entities) \ {NullEntity} : mask \subseteq get_mask(w, e)}

\* An entry's list with its pending diffs folded in, in enqueue order.
Folded(cache) == apply_diffs_to_cache(cache, "benign")

\* Handles that were destroyed and whose index collect_unused_entities has
\* released: the index is in the recycle pool under this or a later
\* version, or it is in use under a later version.
Reconciled ==
    {h \in Handles :
        \/ \E u \in Range(unused_entities) :
              entity_index(u) = entity_index(h)
                  /\ entity_version(h) <= entity_version(u)
        \/ \E x \in Range(entities) \cup
                     {destroyed_entities[i].entity : i \in 1..Len(destroyed_entities)} :
              entity_index(x) = entity_index(h)
                  /\ entity_version(h) < entity_version(x)}

\* The handles an entry's pending diffs name.
DiffEntities(cache) == {cache.diffs[i].entity : i \in 1..Len(cache.diffs)}

---------------------------------------------------------------------------
(* Properties *)

\* C1: a view call that directly follows collect_unused_entities returns,
\* for every mask, exactly the alive non-null entities whose mask contains
\* the view's mask: the result of a brute-force scan.
C1_ViewAfterCollectIsBruteForce ==
    [][(last.op = "collect_unused_entities" /\ last'.op = "view")
         => /\ halted' = "no"
            /\ Range(ViewResult(World', last'.cs, last'.flag))
                 = BruteForce(World', ViewMask(World', last'.cs, last'.flag))]_vars

\* C2: every entity a view<Cs...> call returns holds every component type
\* in Cs, so each<Cs...> can unpack them.
C2_ViewedEntitiesHoldComponents ==
    (last.op = "view" /\ halted = "no")
        => \A e \in Range(ViewResult(World, last.cs, last.flag)) :
              \A i \in 1..Len(last.cs) : contains(World, last.cs[i], e)

\* C3: in every state, folding the pending diffs of a cache entry into its
\* list, in enqueue order, gives exactly the alive entities whose mask
\* contains the entry's mask.
C3_FoldedCacheIsExact ==
    halted = "no"
        => \A m \in DOMAIN view_cache :
              /\ Folded(view_cache[m]).halted = "no"
              /\ Range(Folded(view_cache[m]).entities) = BruteForce(World, m)

\* C4: once an entity was destroyed and collect_unused_entities has run, no
\* cache entry names the old handle in its list, its membership set or its
\* pending diffs, so no view returns it.
C4_ReconciledHandlePurged ==
    halted = "no"
        => \A h \in Reconciled : \A m \in DOMAIN view_cache :
              /\ h \notin Range(view_cache[m].entities)
              /\ h \notin view_cache[m].lookup
              /\ h \notin DiffEntities(view_cache[m])

\* The handle at the back of the recycle pool, the one pushed last.
NewestUnused == unused_entities[Len(unused_entities)]

\* The handle at the front of the recycle pool, the one pushed first.
OldestUnused == unused_entities[1]

\* C5: a created entity that reuses the index of a destroyed and collected
\* entity e has e's index and e's version + 1, so it differs from e, and it
\* carries none of e's components (make_entity packs Active, nothing else);
\* an entity created while the recycle pool is empty has version 0.
C5_ReuseIncrementsVersion ==
    [][(IsMake(last') /\ halted' = "no")
         => LET h == last'.entity
            IN  /\ unused_entities = <<>> => entity_version(h) = 0
                /\ unused_entities # <<>> =>
                      \E e \in Range(unused_entities) :
                          entity_index(h) = entity_index(e)
                /\ \A e \in Range(unused_entities) :
                      entity_index(h) = entity_index(e)
                          => /\ entity_version(h) = entity_version(e) + 1
                             /\ h # e
                /\ last'.op = "make_inactive_entity"
                      => /\ get_mask(World', h) = {}
                         /\ \A c \in CompNames : ~contains(World', c, h)
                /\ last'.op = "make_entity"
                      => /\ get_mask(World', h) = {component_types'["Active"]}
                         /\ \A c \in UserTypes : ~contains(World', c, h)]_vars

\* A state in which a make call has just reused a collected index.
C5_Witness ==
    /\ halted = "no"
    /\ last.op \in {"make_entity", "make_inactive_entity"}
    /\ entity_version(last.entity) = 1
    /\ last.entity \in Range(entities)

\* C6: between destroy_entity(e) and the next collect_unused_entities no
\* make call returns a handle with e's index; e stays recorded as
\* destroyed until collect_unused_entities runs, so without that call its
\* index is never handed out again.
C6_NoReuseBeforeCollect ==
    [][/\ (IsMake(last') /\ halted' = "no")
            => \A i \in 1..Len(destroyed_entities) :
                  entity_index(last'.entity)
                      # entity_index(destroyed_entities[i].entity)
       /\ (last'.op # "collect_unused_entities")
            => /\ \A i \in 1..Len(destroyed_entities) :
                     /\ i <= Len(destroyed_entities')
                     /\ destroyed_entities'[i] = destroyed_entities[i]
               /\ \A u \in Range(unused_entities') : u \in Range(unused_entities)]_vars

\* A state in which an entity was created while another one was destroyed
\* and not yet collected.
C6_Witness ==
    /\ halted = "no"
    /\ IsMake(last)
    /\ destroyed_entities # <<>>
    /\ last.entity \in Range(entities)

\* C7 as stated: with recycled indices available a make call reuses the
\* oldest one, the index released to the recycle pool first, with its
\* version plus one.
C7_ReusesOldest ==
    [][(IsMake(last') /\ halted' = "no" /\ unused_entities # <<>>)
         => last'.entity = entity_id(entity_index(OldestUnused),
                                     entity_version(OldestUnused) + 1)]_vars

\* C7 amended: with recycled indices available a make call reuses the
\* newest one, the index released to the recycle pool last, with its
\* version plus one, and takes it out of the pool.
C7_ReusesNewest ==
    [][(IsMake(last') /\ halted' = "no" /\ unused_entities # <<>>)
         => /\ last'.entity = entity_id(entity_index(NewestUnused),
                                        entity_version(NewestUnused) + 1)
            /\ unused_entities' = PopBack(unused_entities)]_vars

\* A state in which a make call has just reused one of several recycled
\* indices: another one is still in the pool.
C7_Witness ==
    /\ halted = "no"
    /\ IsMake(last)
    /\ entity_version(last.entity) = 1
    /\ unused_entities # <<>>

\* The result of a view<cs>(include_inactive) call made in World w, FALSE
\* when the call does not return.
Views(w, cs, include_inactive, e) ==
    LET w1 == view(w, cs, include_inactive, "benign")
    IN  Running(w1) /\ e \in Range(ViewResult(w1, cs, include_inactive))

\* C8: after set_active(e, false) and then set_active(e, true) on an
\* entity that holds A, view<A>() returns e; after remove<C>(e) and then
\* pack(e, C), every view whose mask e satisfies returns e.
C8_ReAddedEntityIsViewed ==
    [][/\ (/\ last = Call("set_active", last.entity, "Active", <<>>, FALSE)
           /\ last' = Call("set_active", last.entity, "Active", <<>>, TRUE)
           /\ halted' = "no"
           /\ contains(World', "A", last.entity))
            => Views(World', <<"A">>, FALSE, last.entity)
       /\ (/\ last.op = "remove"
           /\ last'.op = "pack" /\ last'.entity = last.entity
           /\ last'.type = last.type
           /\ halted' = "no")
            => \A cs \in ViewLists, include_inactive \in BOOLEAN :
                  LET w1 == RegisterAll(
                                find_or_register_component(World', "Active"), cs, 1)
                  IN  ViewMask(w1, cs, include_inactive)
                          \subseteq get_mask(w1, last.entity)
                      => Views(World', cs, include_inactive, last.entity)]_vars

\* The World's fields other than the state of the process.
Fields(w) ==
    <<w.component_type_index, w.alive_count, w.unused_entities,
      w.destroyed_entities, w.entities, w.view_cache, w.components,
      w.entity_masks, w.component_types, w.channels, w.active_systems,
      w.active_system_types>>

ExceptValue(a, entity) ==
    [a EXCEPT !.packed_array =
        [p \in DOMAIN a.packed_array |->
            IF a.packed_to_entity[p] = entity THEN 0 ELSE a.packed_array[p]]]

\* C10: pack(e, C) on an entity that holds C overwrites the stored value
\* and nothing else: the cache entries (list, membership set, pending
\* diffs), the masks and the slots of the component arrays stay as they
\* are, and e's component has the packed value.
C10_RepackOnlyOverwrites ==
    [][(last'.op = "pack" /\ contains(World, last'.type, last'.entity))
         => /\ halted' = "no"
            /\ view_cache' = view_cache
            /\ entity_masks' = entity_masks
            /\ component_types' = component_types
            /\ DOMAIN components' = DOMAIN components
            /\ \A t \in DOMAIN components :
                  IF t = component_types[last'.type]
                  THEN ExceptValue(components'[t], last'.entity)
                           = ExceptValue(components[t], last'.entity)
                  ELSE components'[t] = components[t]]_vars

\* A state reached by pack on an entity that held the component type, with
\* a cached view that contains the entity.
C10_Witness ==
    /\ halted = "no"
    /\ last.op = "pack"
    /\ last.flag
    /\ \E m \in DOMAIN view_cache : last.entity \in view_cache[m].lookup

\* The maps of a ComponentArray are inverse bijections between the
\* entities that hold a component and the slots 0 .. count() - 1, and
\* packed_array holds a component in each of these slots.
Packed(a) ==
    /\ DOMAIN a.packed_to_entity = 0..(a.packed_count - 1)
    /\ DOMAIN a.packed_array = 0..(a.packed_count - 1)
    /\ \A e \in DOMAIN a.entity_to_packed :
          /\ a.entity_to_packed[e] \in DOMAIN a.packed_to_entity
          /\ a.packed_to_entity[a.entity_to_packed[e]] = e
    /\ \A p \in DOMAIN a.packed_to_entity :
          /\ a.packed_to_entity[p] \in DOMAIN a.entity_to_packed
          /\ a.entity_to_packed[a.packed_to_entity[p]] = p

Chain(handlers, event) ==
    LET stops == {i \in 1..Len(handlers) : Handled(handlers[i], event)}
        n == IF stops = {} THEN Len(handlers)
             ELSE CHOOSE i \in stops : \A j \in stops : i <= j
    IN  [i \in 1..n |-> i]

\* C12: emit<Event> calls the handlers bound to Event in bind order and
\* stops after the first one that returns true: the handlers bound before
\* it are called once each and none bound after it is called; when no
\* handler returns true all are called once, in bind order.
C12_EmitStopsAtFirstHandled ==
    [][(last'.op = "emit" /\ last'.type \in DOMAIN channels)
         => /\ halted' = "no"
            /\ invoked' = Chain(channels[last'.type], last'.entity)]_vars

\* A state reached by emitting to three handlers of which the second is
\* the first to return true: the first two were called.
C12_Witness ==
    /\ last.op = "emit"
    /\ last.type \in DOMAIN channels
    /\ Len(channels[last.type]) = 3
    /\ ~Handled(channels[last.type][1], last.entity)
    /\ Handled(channels[last.type][2], last.entity)
    /\ invoked = <<1, 2>>

\* C13: emit<Event> for an event type without a channel, never bound or
\* bound and then dropped by clear_event_channels, calls no handler,
\* raises no error and leaves the World unchanged.
C13_EmitWithoutChannelIsNoOp ==
    [][(last'.op = "emit" /\ last'.type \notin DOMAIN channels)
         => /\ invoked' = <<>>
            /\ halted' = "no"
            /\ Fields(World') = Fields(World)]_vars

\* A state reached by emitting an event whose type has no channel while
\* a handler is bound to the other event type.
C13_Witness ==
    /\ halted = "no"
    /\ last.op = "emit"
    /\ ~last.flag
    /\ last.type \notin DOMAIN channels
    /\ DOMAIN channels # {}
    /\ invoked = <<>>

\* C14: for an alive entity that holds A and is inactive, set inactive by
\* set_active(e, false) or created by make_inactive_entity and not yet
\* activated, view<A>() does not return it and view<A>(true) does.
C14_InactiveEntityViews ==
    (last.op = "view" /\ last.cs = <<"A">> /\ halted = "no")
        => \A e \in Live :
              (contains(World, "A", e) /\ ~contains(World, "Active", e))
                  => (e \in Range(ViewResult(World, last.cs, last.flag))
                         <=> last.flag)

\* Entity a comes before entity b in a list that holds both.
Before(list, a, b) == Find(list, a) < Find(list, b)

\* The lists of a cache entry before and after a step agree on the order
\* of the entities both hold.
SameOrder(old, new) ==
    \A a \in Range(old) \cap Range(new), b \in Range(old) \cap Range(new) :
        Before(old, a, b) => Before(new, a, b)

\* A list of handles of version 0 in creation order: indices are handed
\* out in increasing order.
InCreationOrder(list) ==
    \A i \in 1..Len(list), j \in 1..Len(list) :
        i < j => entity_index(list[i]) < entity_index(list[j])

\* C15: a view's list keeps its entities in the order in which they were
\* added to the view: a freshly built list is in creation order, and the
\* entities that stay in a list keep their relative order whatever is added
\* to it or removed from it.
C15_ViewKeepsOrder ==
    [][\A m \in DOMAIN view_cache' :
          IF m \in DOMAIN view_cache
          THEN SameOrder(view_cache[m].entities, view_cache'[m].entities)
          ELSE (\A e \in Range(view_cache'[m].entities) : entity_version(e) = 0)
                   => InCreationOrder(view_cache'[m].entities)]_vars

\* C16: view_one<Cs...>() returns the entity the previous view_one<Cs...>()
\* returned unless that entity was destroyed or lost one of the required
\* components (Active among them for a default view) in between; calls on
\* other entities do not change the result.
C16_ViewOneIsStable ==
    [][(/\ last'.op = "view_one"
        /\ watch.entity # NullEntity
        /\ watch.cs = last'.cs /\ watch.flag = last'.flag
        /\ ~watch.exempt)
         => /\ halted' = "no"
            /\ result'.has_value
            /\ result'.value = watch.entity]_vars

\* C17: view_one<Cs...>() never fails: it returns an Optional without a
\* value exactly when view<Cs...>() is empty, and otherwise an Optional
\* holding the first entity of view<Cs...>().
C17_ViewOneNeverFails ==
    last.op = "view_one"
        => /\ halted = "no"
           /\ result.kind = "optional"
           /\ LET v == ViewResult(World, last.cs, last.flag)
              IN  /\ result.has_value <=> Len(v) > 0
                  /\ Len(v) > 0 => result.value = v[1]

\* C18: in a build with assertions unpack<C>(e) fails an assertion
\* whenever e does not hold C (C was removed, e was destroyed, or e never
\* received C), and unpack_one<C>() fails an assertion whenever view<C>()
\* is empty; neither returns a value then.
C18_UnpackAssertsWhenAbsent ==
    [][/\ (assertions /\ last'.op = "unpack"
              /\ ~contains(World, last'.type, last'.entity))
            => halted' = "assert" /\ ~result'.has_value
       /\ (assertions /\ last'.op = "unpack_one"
              /\ LET w1 == view(World, last'.cs, last'.flag, "benign")
                 IN  Running(w1) => ViewResult(w1, last'.cs, last'.flag) = <<>>)
            => halted' = "assert" /\ ~result'.has_value]_vars

\* A state reached by unpack<A>(e) on a destroyed entity e, A being a
\* registered type: the assertion of ComponentArray::read failed.
C18_Witness ==
    /\ assertions
    /\ halted = "assert"
    /\ last.op = "unpack"
    /\ component_types[last.type] # Unregistered
    /\ last.entity \notin Range(entities)
    /\ \E i \in 1..Len(destroyed_entities) :
          destroyed_entities[i].entity = last.entity

\* C19: when assertions are enabled, the number of registered component
\* types never exceeds TWO_COMPONENT_MAX and no slot of the components
\* array past its end is stored to: the registration of one type too many
\* is stopped by an assertion first.
C19_RegistrationIsBounded ==
    assertions =>
        /\ component_type_index <= TWO_COMPONENT_MAX
        /\ \A type \in DOMAIN components : type < TWO_COMPONENT_MAX
        /\ \A c \in DOMAIN component_types :
               component_types[c] # Unregistered
                   => component_types[c] < TWO_COMPONENT_MAX

\* C20: when assertions are enabled, make_inactive_entity called with an
\* empty recycle pool and TWO_ENTITY_MAX indices already allocated fails
\* the 'Too many entities' assertion, and every handle the call returns
\* has entity_index < TWO_ENTITY_MAX.
C20_TooManyEntities ==
    [][(assertions /\ halted = "no" /\ last'.op = "make_inactive_entity")
           => IF unused_entities = <<>> /\ alive_count >= entity_max
              THEN halted' = "assert"
              ELSE /\ halted' = "no"
                   /\ entity_index(last'.entity) < entity_max
                   /\ last'.entity \in Range(entities')]_vars

\* The system the last call was given or constructed.
LastSystem(call) == SystemPtr(call.entity, call.type)

AddsSystem(call) ==
    call.op \in {"make_system", "make_system_instance", "make_system_before"}

\* C21: a make_system or make_system_before call that adds a system to the
\* World calls load on that system exactly once, with the system already in
\* active_systems, and makes no other call on a system.
C21_AddingLoadsOnce ==
    [][(AddsSystem(last') /\ LastSystem(last') \in Range(active_systems'))
           => callbacks' = <<[fn |-> "load", system |-> LastSystem(last'),
                              listed |-> TRUE]>>]_vars

\* Position of the first system of class T in a list of systems, 0 when
\* there is none.
FirstOfType(systems, T) ==
    IF \E i \in 1..Len(systems) : systems[i].type = T
    THEN CHOOSE i \in 1..Len(systems) :
            systems[i].type = T /\ \A j \in 1..(i - 1) : systems[j].type # T
    ELSE 0

\* C22: make_system_before<Before, T> called while a system of class Before
\* is in the World inserts the new system immediately before the first
\* such system, keeps the order of the systems that were there, and records
\* T at the same position of active_system_types.
C22_InsertsBeforeFirst ==
    [][(last'.op = "make_system_before"
            /\ FirstOfType(active_systems, last'.cs[1]) # 0)
           => LET p == FirstOfType(active_systems, last'.cs[1])
              IN  /\ active_systems'
                         = InsertAt(active_systems, p - 1, LastSystem(last'))
                  /\ active_system_types'
                         = InsertAt(active_system_types, p - 1, last'.type)]_vars

\* The systems of class T in a list of systems, in list order.
OfType(systems, T) == SelectSeq(systems, LAMBDA system : system.type = T)

\* C23: get_system<T>() returns the first system of active_systems whose
\* class is T, or nullptr when active_systems holds no system of class T;
\* get_all_systems<T> appends exactly the systems of class T, in list
\* order.
C23_GetSystemByType ==
    [][/\ last'.op = "get_system"
           => result'.value
                  = IF FirstOfType(active_systems, last'.type) = 0
                    THEN NullSystem
                    ELSE active_systems[FirstOfType(active_systems, last'.type)]
       /\ last'.op = "get_all_systems"
           => result'.value = OfType(active_systems, last'.type)]_vars

\* C24: destroy_system(s), s in the World, calls unload on s once and then
\* deletes it, erases s from active_systems and the entry of s's class at
\* the same position from active_system_types, and keeps the order of the
\* rest; destroy_system on a system that is not in the World changes
\* nothing and calls nothing.  destroy_systems calls unload once on each system in
\* list order, deletes it, and leaves both lists empty.
C24_DestroyUnloadsOnce ==
    [][/\ (last'.op = "destroy_system" /\ last'.flag)
           => LET s == LastSystem(last')
                  pos == Find(active_systems, s)
              IN  /\ callbacks' = <<[fn |-> "unload", system |-> s, listed |-> TRUE],
                                    [fn |-> "delete", system |-> s, listed |-> TRUE]>>
                  /\ active_systems' = EraseAt(active_systems, pos - 1)
                  /\ active_system_types' = EraseAt(active_system_types, pos - 1)
                  /\ s \notin Range(active_systems')
                  /\ active_system_types[pos] = s.type
       /\ (last'.op = "destroy_system" /\ ~last'.flag)
           => /\ callbacks' = <<>>
              /\ Fields(World') = Fields(World)
       /\ last'.op = "destroy_systems"
           => /\ active_systems' = <<>>
              /\ active_system_types' = <<>>
              /\ Len(callbacks') = 2 * Len(active_systems)
              /\ \A i \in 1..Len(active_systems) :
                     /\ callbacks'[2 * i - 1]
                            = [fn |-> "unload", system |-> active_systems[i],
                               listed |-> TRUE]
                     /\ callbacks'[2 * i]
                            = [fn |-> "delete", system |-> active_systems[i],
                               listed |-> TRUE]]_vars

\* Number of times a handle occurs in a list.
Occurrences(list, entity) == Cardinality({i \in 1..Len(list) : list[i] = entity})

\* The component types the entity has a component of in the stores.
Stored(w, entity) ==
    {c \in DOMAIN w.component_types :
        /\ w.component_types[c] # Unregistered
        /\ ComponentArray_contains(w.components[w.component_types[c]], entity)}

\* C25: make_entity returns a handle other than NullEntity that holds
\* Active; make_inactive_entity returns a handle other than NullEntity
\* that holds no component; once an entity has been created, NullEntity is
\* in the list of all entities exactly once.
C25_MakeEntityIsActive ==
    [][(IsMake(last') /\ last'.op # "make_entity_from" /\ halted' = "no")
           => /\ last'.entity # NullEntity
              /\ Occurrences(entities', last'.entity) = 1
              /\ Occurrences(entities', NullEntity) = 1
              /\ last'.op = "make_entity"
                     => /\ contains(World', "Active", last'.entity)
                        /\ Stored(World', last'.entity) = {"Active"}
              /\ last'.op = "make_inactive_entity"
                     => /\ get_mask(World', last'.entity) = {}
                        /\ Stored(World', last'.entity) = {}]_vars

\* make_entity returned a recycled index, long after the creation that
\* inserted NullEntity.
C25_Witness ==
    /\ last.op = "make_entity"
    /\ halted = "no"
    /\ entity_version(last.entity) > 0
    /\ Len(entities) > 2

\* C26: in every state reached through calls on handles other than
\* NullEntity, the mask of NullEntity is empty, no store holds a component
\* for it, and it is in no cache entry (list, lookup set or pending diffs),
\* hence in no view result, the entry of the empty mask that
\* view<>(true) returns included.
C26_NullEntityIsNeverMatched ==
    /\ entity_masks[entity_index(NullEntity)] = {}
    /\ Stored(World, NullEntity) = {}
    /\ \A mask \in DOMAIN view_cache :
           /\ NullEntity \notin Range(view_cache[mask].entities)
           /\ NullEntity \notin view_cache[mask].lookup
           /\ NullEntity \notin DiffEntities(view_cache[mask])

\* view<>(true) built the entry of the empty mask while NullEntity was in
\* the list of all entities, and returned an entity.
C26_Witness ==
    /\ last.op = "view"
    /\ last.cs = <<>>
    /\ last.flag
    /\ NullEntity \in Range(entities)
    /\ {} \in DOMAIN view_cache
    /\ view_cache[{}].entities # <<>>

\* The component of type c the stores hold for the entity.
ComponentValue(w, c, entity) ==
    ComponentArray_read(w.components[w.component_types[c]], entity)

\* The bits of the component types the entity has a component of.
StoredBits(w, entity) == {w.component_types[c] : c \in Stored(w, entity)}

\* C27: make_entity(archetype) returns a new entity that holds Active and,
\* for every component type the archetype holds, a component equal to the
\* archetype's; the archetype keeps its components and its mask; the mask
\* of the new entity has exactly the bits of the components the stores
\* hold for it.
C27_ArchetypeIsCopied ==
    [][(last'.op = "make_entity_from" /\ halted' = "no")
           => LET e == last'.entity
                  archetype == last'.cs[1]
              IN  /\ e \notin Range(entities)
                  /\ e \in Range(entities')
                  /\ "Active" \in Stored(World', e)
                  /\ \A c \in Stored(World, archetype) :
                         /\ c \in Stored(World', e)
                         /\ ComponentValue(World', c, e)
                                = ComponentValue(World, c, archetype)
                  /\ Stored(World', archetype) = Stored(World, archetype)
                  /\ \A c \in Stored(World, archetype) :
                         ComponentValue(World', c, archetype)
                             = ComponentValue(World, c, archetype)
                  /\ get_mask(World', archetype) = get_mask(World, archetype)
                  /\ get_mask(World', e) = StoredBits(World', e)]_vars

\* make_entity(archetype) copied from an inactive archetype that holds A.
C27_Witness ==
    /\ last.op = "make_entity_from"
    /\ halted = "no"
    /\ Stored(World, last.cs[1]) = {"A"}
    /\ Stored(World, last.entity) = {"Active", "A"}

\* No cache entry has a diff of the entity in its queue.
NoPendingDiffs(w, entity) ==
    \A mask \in DOMAIN w.view_cache :
        entity \notin DiffEntities(w.view_cache[mask])

\* C28: after destroy_entity(e) on an entity with no diff pending in any
\* cache entry, no store holds a component for e, the mask slot of e is
\* empty, e is not in the list of all entities, and a view call made next,
\* on any mask, does not return e.
C28_DestroyedEntityIsGone ==
    [][(last'.op = "destroy_entity" /\ halted' = "no"
            /\ NoPendingDiffs(World, last'.entity))
           => LET e == last'.entity
              IN  /\ Stored(World', e) = {}
                  /\ get_mask(World', e) = {}
                  /\ e \notin Range(entities')
                  /\ \A cs \in ViewLists, include_inactive \in BOOLEAN,
                        ub \in UBOutcomes :
                         LET w == view(World', cs, include_inactive, ub)
                         IN  Running(w)
                                => e \notin Range(ViewResult(w, cs, include_inactive))]_vars

\* destroy_entity(e) queued the only diff of e on an entry whose list
\* holds e.
C28_Witness ==
    /\ last.op = "destroy_entity"
    /\ halted = "no"
    /\ \E mask \in DOMAIN view_cache :
           /\ view_cache[mask].diffs = <<RemoveDiff(last.entity)>>
           /\ last.entity \in Range(view_cache[mask].entities)

\* C29: in every state, no cache entry's queue of pending diffs holds two
\* diffs with the same entity and the same operation.
C29_NoDuplicateDiffs ==
    \A mask \in DOMAIN view_cache :
        LET diffs == view_cache[mask].diffs
        IN  \A i \in 1..Len(diffs), j \in 1..Len(diffs) :
                diffs[i] = diffs[j] => i = j

\* C30: remove<C>(e) on an entity that does not hold C reports no error
\* and changes nothing in the World, whether C was registered before the
\* call or not.
C30_RemoveAbsentIsNoOp ==
    [][(last'.op = "remove" /\ ~last'.flag)
           => /\ halted' = "no"
              /\ Fields(World') = Fields(World)]_vars

\* C31: a handle e whose index a live entity with another version has
\* taken holds no component, and pack, remove or set_active called with e
\* changes neither the components nor the mask of that live entity.
C31_StaleHandleIsInert ==
    [][(last'.op \in {"pack", "remove", "set_active"}
            /\ last'.entity \in StaleHandles)
           => LET live == Successor(last'.entity)
              IN  /\ Stored(World, last'.entity) = {}
                  /\ halted' = "no"
                         => /\ Stored(World', live) = Stored(World, live)
                            /\ get_mask(World', live) = get_mask(World, live)]_vars

\* C32: a view call that finds an entry with an empty queue of diffs
\* returns the entry's list as it is and changes nothing in the World; a
\* view call that directly follows a view call on the same mask returns
\* the same list, in the same order.
C32_CacheHitChangesNothing ==
    [][/\ (last'.op = "view" /\ IsCacheHit(World, last'.cs, last'.flag))
           => /\ halted' = "no"
              /\ Fields(World') = Fields(World)
              /\ ViewResult(World', last'.cs, last'.flag)
                     = ViewResult(World, last'.cs, last'.flag)
       /\ (/\ last.op = "view" /\ last'.op = "view"
           /\ last'.cs = last.cs /\ last'.flag = last.flag)
           => /\ halted' = "no"
              /\ ViewResult(World', last.cs, last.flag)
                     = ViewResult(World, last.cs, last.flag)]_vars

\* A view call was served from an entry with an empty queue, and returned
\* a list that a scan of the entities would no longer give.
C32_Witness ==
    /\ last.op = "view"
    /\ halted = "no"
    /\ result.kind = "list"
    /\ result.value # <<>>
    /\ result.value # Scan(World, ViewMask(World, last.cs, last.flag), 1, <<>>)

\* C33: write(e, v) and remove(e) on a ComponentArray leave the value read
\* for every other entity that holds a component as it was, the entity
\* whose component remove moves out of the last slot included; write on
\* an entity that holds a component changes the value of that entity only
\* and leaves count() as it was.
C33_OtherComponentsAreKept ==
    [][(Packed(store) /\ last'.op \in {"write", "remove"})
         => /\ \A e \in DOMAIN store.entity_to_packed \ {last'.entity} :
                  /\ ComponentArray_contains(store', e)
                  /\ ComponentArray_read(store', e) = ComponentArray_read(store, e)
            /\ (last'.op = "remove" /\ halted' = "no")
                  => /\ ~ComponentArray_contains(store', last'.entity)
                     /\ DOMAIN store'.entity_to_packed
                            = DOMAIN store.entity_to_packed \ {last'.entity}
            /\ (last'.op = "write" /\ last'.flag)
                  => /\ halted' = "no"
                     /\ store'.packed_count = store.packed_count
                     /\ ComponentArray_read(store', last'.entity) = result'.value]_vars

\* A write replaced the component of an entity that is not in the first
\* slot, while the entity in the first slot holds another value.
C33_Witness ==
    /\ halted = "no"
    /\ last.op = "write"
    /\ last.flag
    /\ Packed(store)
    /\ store.entity_to_packed[last.entity] > 0
    /\ store.packed_array[0] # result.value

\* The diffs that are pending on a cache entry.
Pending(cache) == {cache.diffs[i] : i \in 1..Len(cache.diffs)}

\* C34: pack(e, C) on an entity that did not carry C appends an Add diff
\* for e to exactly the cache entries whose mask is a subset of the new
\* mask of e and whose lookup does not hold e, unless that Add is pending
\* there already, and changes no other cache entry.
C34_PackQueuesAdd ==
    [][(last'.op = "pack" /\ ~last'.flag)
         => LET e == last'.entity
                mask == entity_masks'[entity_index(e)]
            IN  /\ halted' = "no"
                /\ mask = entity_masks[entity_index(e)]
                              \cup {component_types'[last'.type]}
                /\ DOMAIN view_cache' = DOMAIN view_cache
                /\ \A m \in DOMAIN view_cache :
                      LET old == view_cache[m]
                          new == view_cache'[m]
                      IN  /\ new.entities = old.entities
                          /\ new.lookup = old.lookup
                          /\ new.diffs =
                                IF /\ m \subseteq mask
                                   /\ e \notin old.lookup
                                   /\ AddDiff(e) \notin Pending(old)
                                THEN Append(old.diffs, AddDiff(e))
                                ELSE old.diffs]_vars

\* pack gave an entity a component it did not carry while one entry
\* whose mask the entity matches held it already and another did not:
\* the Add is pending on the second only.
C34_Witness ==
    /\ halted = "no"
    /\ last.op = "pack"
    /\ ~last.flag
    /\ \E m1, m2 \in DOMAIN view_cache :
          /\ m1 \subseteq entity_masks[entity_index(last.entity)]
          /\ m2 \subseteq entity_masks[entity_index(last.entity)]
          /\ last.entity \in view_cache[m1].lookup
          /\ view_cache[m1].diffs = <<>>
          /\ last.entity \notin view_cache[m2].lookup
          /\ AddDiff(last.entity) \in Pending(view_cache[m2])

C36_MaskAgreesWithStores ==
    halted = "no"
        => \A e \in Live : \A c \in DOMAIN component_types :
              component_types[c] # Unregistered
                  => ((component_types[c] \in get_mask(World, e))
                          <=> contains(World, c, e))

\* remove took a component from an entity while another live entity
\* keeps one of the same type: the first has neither bit nor slot, the
\* second has both.
C36_Witness ==
    /\ halted = "no"
    /\ last.op = "remove"
    /\ last.flag
    /\ last.entity \in Live
    /\ ~contains(World, last.type, last.entity)
    /\ component_types[last.type] \notin get_mask(World, last.entity)
    /\ \E e \in Live :
          /\ contains(World, last.type, e)
          /\ component_types[last.type] \in get_mask(World, e)

\* C37: in every reachable state the list of each cache entry holds no
\* entity twice, and the lookup of the entry is the set of the entities
\* in the list.
C37_LookupIsTheList ==
    halted = "no"
        => \A m \in DOMAIN view_cache :
              /\ \A i, j \in 1..Len(view_cache[m].entities) :
                    view_cache[m].entities[i] = view_cache[m].entities[j] => i = j
              /\ view_cache[m].lookup = Range(view_cache[m].entities)

\* Every Remove diff in the queue of the entry finds its entity in the
\* list when the queue is folded in order: the condition of
\* ASSERT(rem != vec.end()) holds in each iteration.
RemovesAreFound(cache) == apply_diffs_to_cache(cache, "crash").halted = "no"

\* C38: the assertion of apply_diffs_to_cache that the entity of a Remove
\* diff is in the cached list holds whenever a view folds the queue of
\* its entry, after every sequence of calls on live handles.
C38_RemoveDiffIsFound ==
    [][(/\ last'.op = "view"
        /\ component_types["Active"] # Unregistered
        /\ \A i \in 1..Len(last'.cs) : component_types[last'.cs[i]] # Unregistered
        /\ ViewMask(World, last'.cs, last'.flag) \in DOMAIN view_cache)
         => /\ RemovesAreFound(view_cache[ViewMask(World, last'.cs, last'.flag)])
            /\ halted' = "no"]_vars

\* The indices of the handles in a sequence of handles.
Indices(handles) == {entity_index(handles[i]) : i \in 1..Len(handles)}

\* The handles destroy_entity has put aside for collect_unused_entities.
DestroyedHandles ==
    [i \in 1..Len(destroyed_entities) |-> destroyed_entities[i].entity]

\* C39: in every reachable state the list of all entities holds no handle
\* twice and no two handles with the same index, and the indices that
\* are alive, those destroyed and not yet collected, and those free for
\* reuse are pairwise disjoint.
C39_IndicesAreDisjoint ==
    halted = "no"
        => /\ \A i, j \in 1..Len(entities) :
                 entity_index(entities[i]) = entity_index(entities[j]) => i = j
           /\ Indices(entities) \cap Indices(DestroyedHandles) = {}
           /\ Indices(entities) \cap Indices(unused_entities) = {}
           /\ Indices(DestroyedHandles) \cap Indices(unused_entities) = {}

\* After destroy_entity and collect_unused_entities an index is alive
\* again under its second handle while another index is free for reuse.
C39_Witness ==
    /\ halted = "no"
    /\ last.op \in {"make_entity", "make_inactive_entity"}
    /\ \E e \in Live : entity_version(e) > 0
    /\ unused_entities # <<>>
    /\ destroyed_entities = <<>>

\* C40: a view with include_inactive = false requires the bit that the
\* World it is called on gave to Active: Active is registered in that
\* World, the list returned is the one cached under the mask made of the
\* World's bits of the types and of Active, and every entity returned
\* has the World's bit of Active set; whatever the order in which the
\* World registered its types and whatever Worlds ran the same view
\* before.
C40_ViewRequiresActiveOfThisWorld ==
    [][(last'.op = "view" /\ ~last'.flag /\ halted' = "no")
         => /\ component_types'["Active"] # Unregistered
            /\ ViewMask(World', last'.cs, FALSE) \in DOMAIN view_cache'
            /\ result'.value = ViewResult(World', last'.cs, FALSE)
            /\ \A e \in Range(result'.value) :
                  component_types'["Active"] \in get_mask(World', e)]_vars

====
